---- MODULE Spec2Model ----
(***************************************************************************)
(* Mixboard: the StagelinQ connection manager's state reduction.           *)
(*                                                                         *)
(* The manager keeps one state tree (four decks, a mixer, a device record) *)
(* and mutates it from two channels: raw path/value messages and player    *)
(* status objects.  The values on both channels are JavaScript values, so  *)
(* the model carries them as tagged records and spells out the language's  *)
(* conversions (truthiness, String, Number, parseInt, parseFloat) that the *)
(* reducers apply.  Strings are tuples of one-character strings, so that   *)
(* parsing, searching and replacing are computed, not tabulated.           *)
(***************************************************************************)
EXTENDS Integers, Sequences, FiniteSets, TLC

(***************************************************************************)
(* JavaScript values.  A number is the rational n/d in lowest terms with   *)
(* d > 0; d = 0 is NaN.  An object is opaque and told apart by n.          *)
(***************************************************************************)
Undefined == [t |-> "undefined", n |-> 0, d |-> 1, s |-> <<>>]

Null == [t |-> "null", n |-> 0, d |-> 1, s |-> <<>>]

Bool(b) == [t |-> "boolean", n |-> (IF b THEN 1 ELSE 0), d |-> 1, s |-> <<>>]

Str(cs) == [t |-> "string", n |-> 0, d |-> 1, s |-> cs]

Obj(k) == [t |-> "object", n |-> k, d |-> 1, s |-> <<>>]

NaN == [t |-> "number", n |-> 0, d |-> 0, s |-> <<>>]

Abs(x) == IF x < 0 THEN -x ELSE x

RECURSIVE GCD(_, _)
GCD(a, b) == IF b = 0 THEN a ELSE GCD(b, a % b)

Rat(n, d) ==
    IF d = 0 THEN NaN
    ELSE LET g == GCD(Abs(n), Abs(d))
             sg == IF d < 0 THEN -1 ELSE 1
         IN  [t |-> "number", n |-> (sg * n) \div g, d |-> Abs(d) \div g, s |-> <<>>]

Num(n) == Rat(n, 1)

IsNaN(v) == v.d = 0

\* a / b on numbers.  The reducers divide only by a positive sample rate.
Div(a, b) == IF IsNaN(a) \/ IsNaN(b) THEN NaN ELSE Rat(a.n * b.d, a.d * b.n)

\* a * b on numbers.
Mul(a, b) == IF IsNaN(a) \/ IsNaN(b) THEN NaN ELSE Rat(a.n * b.n, a.d * b.d)

\* a > 0, a >= 0, a <= 1, a > 1 on numbers (every comparison with NaN is false).
GtZero(a) == ~IsNaN(a) /\ a.n > 0

GeZero(a) == ~IsNaN(a) /\ a.n >= 0

LeOne(a) == ~IsNaN(a) /\ a.n <= a.d

GtOne(a) == ~IsNaN(a) /\ a.n > a.d

\* ToBoolean: the truthiness of a value.
ToBoolean(v) ==
    CASE v.t = "undefined" -> FALSE
      [] v.t = "null" -> FALSE
      [] v.t = "boolean" -> v.n = 1
      [] v.t = "number" -> ~IsNaN(v) /\ v.n # 0
      [] v.t = "string" -> Len(v.s) > 0
      [] OTHER -> TRUE

\* a || b
OrElse(a, b) == IF ToBoolean(a) THEN a ELSE b

(***************************************************************************)
(* Strings: searching and replacing.                                       *)
(***************************************************************************)
\* The least position >= from where needle occurs in hay, 0 if there is none.
IndexOf(hay, needle, from) ==
    LET hits == {i \in from..(Len(hay) - Len(needle) + 1) :
                    SubSeq(hay, i, i + Len(needle) - 1) = needle}
    IN  IF hits = {} THEN 0 ELSE CHOOSE i \in hits : \A j \in hits : i <= j

\* hay.includes(needle)
Includes(hay, needle) == IndexOf(hay, needle, 1) # 0

\* hay.replace(needle, repl): the first occurrence only.
Replace(hay, needle, repl) ==
    LET i == IndexOf(hay, needle, 1)
    IN  IF i = 0 THEN hay
        ELSE SubSeq(hay, 1, i - 1) \o repl \o SubSeq(hay, i + Len(needle), Len(hay))

(***************************************************************************)
(* Strings to numbers and back.                                            *)
(***************************************************************************)
DigitChars == <<"0","1","2","3","4","5","6","7","8","9">>

IsDigit(c) == \E i \in 1..Len(DigitChars) : DigitChars[i] = c

DigitVal(c) == (CHOOSE i \in 1..Len(DigitChars) : DigitChars[i] = c) - 1

IsSpace(c) == c = " "

\* The first position at or after i that holds no white space.
RECURSIVE SkipSpace(_, _)
SkipSpace(cs, i) ==
    IF i <= Len(cs) /\ IsSpace(cs[i]) THEN SkipSpace(cs, i + 1) ELSE i

\* The first position at or after i that holds no digit.
RECURSIVE DigitRunEnd(_, _)
DigitRunEnd(cs, i) ==
    IF i <= Len(cs) /\ IsDigit(cs[i]) THEN DigitRunEnd(cs, i + 1) ELSE i

\* The value of the digits cs[i], ..., cs[j-1].
RECURSIVE DigitsValue(_, _, _)
DigitsValue(cs, i, j) ==
    IF j <= i THEN 0 ELSE DigitsValue(cs, i, j - 1) * 10 + DigitVal(cs[j - 1])

RECURSIVE Pow10(_)
Pow10(k) == IF k = 0 THEN 1 ELSE 10 * Pow10(k - 1)

\* The longest prefix of cs, after leading white space, that is a signed
\* decimal literal (digits, optionally a point and digits): whether there is
\* one, its value and the position after it.  Exponents, hexadecimal and the
\* Infinity literal are left out; no input of the model carries them.
ScanDecimal(cs, fraction) ==
    LET i0 == SkipSpace(cs, 1)
        signed == i0 <= Len(cs) /\ cs[i0] \in {"+", "-"}
        sg == IF signed /\ cs[i0] = "-" THEN -1 ELSE 1
        i1 == IF signed THEN i0 + 1 ELSE i0
        e1 == DigitRunEnd(cs, i1)
        point == fraction /\ e1 <= Len(cs) /\ cs[e1] = "."
        e2 == IF point THEN DigitRunEnd(cs, e1 + 1) ELSE e1
        nfrac == IF point THEN e2 - (e1 + 1) ELSE 0
        ok == (e1 > i1) \/ nfrac > 0
        whole == DigitsValue(cs, i1, e1)
        frac == IF point THEN DigitsValue(cs, e1 + 1, e2) ELSE 0
    IN  [ok |-> ok,
         val |-> IF ok THEN Rat(sg * (whole * Pow10(nfrac) + frac), Pow10(nfrac)) ELSE NaN,
         end |-> IF ok THEN e2 ELSE i0]

RECURSIVE NatToChars(_)
NatToChars(k) ==
    IF k < 10 THEN <<DigitChars[k + 1]>>
    ELSE NatToChars(k \div 10) \o <<DigitChars[(k % 10) + 1]>>

\* The decimal digits of rem/d, 0 <= rem < d, at most budget of them.
RECURSIVE FracToChars(_, _, _)
FracToChars(rem, d, budget) ==
    IF rem = 0 \/ budget = 0 THEN <<>>
    ELSE <<DigitChars[((rem * 10) \div d) + 1]>> \o FracToChars((rem * 10) % d, d, budget - 1)

\* Number::toString for the numbers the model's inputs carry (decimals that
\* terminate, below 10^21 in size).
NumberToString(v) ==
    IF IsNaN(v) THEN <<"N","a","N">>
    ELSE LET a == Abs(v.n)
             whole == NatToChars(a \div v.d)
             frac == FracToChars(a % v.d, v.d, 17)
         IN  (IF v.n < 0 THEN <<"-">> ELSE <<>>) \o whole
                 \o (IF frac = <<>> THEN <<>> ELSE <<".">> \o frac)

\* String(v)
String(v) ==
    CASE v.t = "undefined" -> <<"u","n","d","e","f","i","n","e","d">>
      [] v.t = "null" -> <<"n","u","l","l">>
      [] v.t = "boolean" -> (IF v.n = 1 THEN <<"t","r","u","e">> ELSE <<"f","a","l","s","e">>)
      [] v.t = "number" -> NumberToString(v)
      [] v.t = "string" -> v.s
      [] OTHER -> <<"[","o","b","j","e","c","t"," ","O","b","j","e","c","t","]">>

\* cs without its trailing white space.
RECURSIVE TrimEnd(_)
TrimEnd(cs) ==
    IF Len(cs) > 0 /\ IsSpace(cs[Len(cs)]) THEN TrimEnd(SubSeq(cs, 1, Len(cs) - 1)) ELSE cs

\* Number(v): the conversion the relational operators apply to an operand.
Number(v) ==
    CASE v.t = "undefined" -> NaN
      [] v.t = "null" -> Num(0)
      [] v.t = "boolean" -> Num(v.n)
      [] v.t = "number" -> v
      [] v.t = "string" ->
            LET cs == TrimEnd(v.s)
                sc == ScanDecimal(cs, TRUE)
            IN  IF SkipSpace(cs, 1) > Len(cs) THEN Num(0)
                ELSE IF sc.ok /\ sc.end = Len(cs) + 1 THEN sc.val
                ELSE NaN
      [] OTHER -> NaN

\* parseFloat(v) and parseInt(v): String(v), then its longest numeric prefix.
parseFloat(v) == ScanDecimal(String(v), TRUE).val

parseInt(v) == ScanDecimal(String(v), FALSE).val

(***************************************************************************)
(* The state tree.                                                         *)
(***************************************************************************)
\* KEY_MAP: key index to key label (Camelot / Open Key notation).  The flat
\* and sharp signs of the labels are written b and #.
KEY_MAP ==
    <<<<"1","A"," ","(","A","b","m",")">>, <<"1","B"," ","(","B",")">>, <<"2","A"," ","(","E","b","m",")">>, <<"2","B"," ","(","F","#",")">>,
      <<"3","A"," ","(","B","b","m",")">>, <<"3","B"," ","(","D","b",")">>, <<"4","A"," ","(","F","m",")">>, <<"4","B"," ","(","A","b",")">>,
      <<"5","A"," ","(","C","m",")">>, <<"5","B"," ","(","E","b",")">>, <<"6","A"," ","(","G","m",")">>, <<"6","B"," ","(","B","b",")">>,
      <<"7","A"," ","(","D","m",")">>, <<"7","B"," ","(","F",")">>, <<"8","A"," ","(","A","m",")">>, <<"8","B"," ","(","C",")">>,
      <<"9","A"," ","(","E","m",")">>, <<"9","B"," ","(","G",")">>, <<"1","0","A"," ","(","B","m",")">>, <<"1","0","B"," ","(","D",")">>,
      <<"1","1","A"," ","(","F","#","m",")">>, <<"1","1","B"," ","(","A",")">>, <<"1","2","A"," ","(","D","b","m",")">>, <<"1","2","B"," ","(","E",")">>>>

\* A faulty lookup: the index wraps around the table instead of missing it.
KeyLabel_Wraps(index) ==
    IF ~IsNaN(index) /\ index.d = 1
    THEN Str(KEY_MAP[(index.n % Len(KEY_MAP)) + 1])
    ELSE Str(<<>>)

\* KEY_MAP[index] || '': the table's keys are 0..23, the tuple's 1..24.
KeyLabel(index) ==
    IF ~IsNaN(index) /\ index.d = 1 /\ index.n >= 0 /\ index.n < Len(KEY_MAP)
    THEN Str(KEY_MAP[index.n + 1])
    ELSE Str(<<>>)

\* The hotcue slots a status object can carry.
HotcueSlots == 1..8

\* The object deck.hotcues: absent until a status update creates it.
NoHotcues == [has |-> FALSE, map |-> [i \in HotcueSlots |-> Undefined]]

\* A faulty empty deck: the key index starts at 0, the label of key 1A.
emptyDeck_KeyIndexZero ==
    [trackName |-> Str(<<>>), artistName |-> Str(<<>>), songName |-> Str(<<>>),
     trackLength |-> Num(0), trackUri |-> Str(<<>>), trackNetworkPath |-> Str(<<>>),
     sampleRate |-> Num(0), songLoaded |-> FALSE, songAnalyzed |-> FALSE,
     artwork |-> Null,
     play |-> FALSE, playState |-> FALSE, currentPosition |-> Num(0),
     currentBPM |-> Num(0), trackBPM |-> Num(0),
     speed |-> Num(0), speedRange |-> Num(0),
     syncMode |-> Num(0), deckIsMaster |-> FALSE, masterTempo |-> Num(0),
     currentKeyIndex |-> Num(0), currentKey |-> Str(<<>>), keyLock |-> FALSE,
     externalScratchWheelTouch |-> FALSE, externalMixerVolume |-> Num(0),
     cuePosition |-> Num(0), cuePositionRaw |-> Num(0),
     loopEnableState |-> FALSE, currentLoopInPosition |-> Num(0),
     currentLoopOutPosition |-> Num(0), currentLoopSizeInBeats |-> Num(0),
     trackLengthRaw |-> Num(0), loopInRaw |-> Num(0), loopOutRaw |-> Num(0),
     beatPosition |-> Num(0), totalBeats |-> Num(0),
     dbSourceName |-> Str(<<>>), trackPath |-> Str(<<>>), jogColor |-> Null,
     hotcues |-> NoHotcues]

emptyDeck ==
    [trackName |-> Str(<<>>), artistName |-> Str(<<>>), songName |-> Str(<<>>),
     trackLength |-> Num(0), trackUri |-> Str(<<>>), trackNetworkPath |-> Str(<<>>),
     sampleRate |-> Num(0), songLoaded |-> FALSE, songAnalyzed |-> FALSE,
     artwork |-> Null,
     play |-> FALSE, playState |-> FALSE, currentPosition |-> Num(0),
     currentBPM |-> Num(0), trackBPM |-> Num(0),
     speed |-> Num(0), speedRange |-> Num(0),
     syncMode |-> Num(0), deckIsMaster |-> FALSE, masterTempo |-> Num(0),
     currentKeyIndex |-> Num(-1), currentKey |-> Str(<<>>), keyLock |-> FALSE,
     externalScratchWheelTouch |-> FALSE, externalMixerVolume |-> Num(0),
     cuePosition |-> Num(0), cuePositionRaw |-> Num(0),
     loopEnableState |-> FALSE, currentLoopInPosition |-> Num(0),
     currentLoopOutPosition |-> Num(0), currentLoopSizeInBeats |-> Num(0),
     trackLengthRaw |-> Num(0), loopInRaw |-> Num(0), loopOutRaw |-> Num(0),
     beatPosition |-> Num(0), totalBeats |-> Num(0),
     dbSourceName |-> Str(<<>>), trackPath |-> Str(<<>>), jogColor |-> Null,
     hotcues |-> NoHotcues]

DeckNumbers == 1..4

_createEmptyState ==
    [decks |-> [i \in DeckNumbers |-> emptyDeck],
     mixer |-> [ch1Fader |-> Num(0), ch2Fader |-> Num(0), ch3Fader |-> Num(0),
                ch4Fader |-> Num(0), crossfader |-> Rat(1, 2)],
     device |-> [name |-> Str(<<>>), ip |-> Str(<<>>), softwareName |-> Str(<<>>),
                 softwareVersion |-> Str(<<>>), connectionState |-> "disconnected",
                 deckCount |-> Num(2), hasSDCard |-> FALSE, hasUsb |-> FALSE,
                 activeDeck |-> Num(1)]]

(***************************************************************************)
(* The deck reducer: one (key, value) applied to one deck.                 *)
(***************************************************************************)
\* raw / sampleRate when the deck's sample rate is positive, else 0.
\* A faulty SecondsOf: the seconds are taken against a rate of 1.
SecondsOf_Unscaled(deck, raw) ==
    IF GtZero(deck.sampleRate) THEN raw ELSE Num(0)

SecondsOf(deck, raw) ==
    IF GtZero(deck.sampleRate) THEN Div(raw, deck.sampleRate) ELSE Num(0)

\* A faulty case 'TrackLength': without a positive rate the seconds stay.
SetTrackLength_KeepsSeconds(deck, value) ==
    LET raw == OrElse(parseFloat(value), Num(0))
    IN  [deck EXCEPT !.trackLengthRaw = raw,
                     !.trackLength = IF GtZero(deck.sampleRate)
                                     THEN Div(raw, deck.sampleRate) ELSE @]

\* case 'TrackLength'
SetTrackLength(deck, value) ==
    LET raw == OrElse(parseFloat(value), Num(0))
    IN  [deck EXCEPT !.trackLengthRaw = raw, !.trackLength = SecondsOf(deck, raw)]

\* case 'CuePosition'
SetCuePosition(deck, value) ==
    LET raw == OrElse(parseFloat(value), Num(0))
    IN  [deck EXCEPT !.cuePositionRaw = raw, !.cuePosition = SecondsOf(deck, raw)]

\* case 'CurrentLoopInPosition'
SetLoopIn(deck, value) ==
    LET raw == OrElse(parseFloat(value), Num(0))
    IN  [deck EXCEPT !.loopInRaw = raw, !.currentLoopInPosition = SecondsOf(deck, raw)]

\* case 'CurrentLoopOutPosition'
SetLoopOut(deck, value) ==
    LET raw == OrElse(parseFloat(value), Num(0))
    IN  [deck EXCEPT !.loopOutRaw = raw, !.currentLoopOutPosition = SecondsOf(deck, raw)]

\* if (raw) derived = raw / rate, for one raw/derived pair.
Rescaled(raw, derived, rate) == IF ToBoolean(raw) THEN Div(raw, rate) ELSE derived

\* A faulty case 'SampleRate': a rate that is not positive clears the seconds.
SetSampleRate_ClearsSeconds(deck, value) ==
    LET rate == OrElse(parseInt(value), Num(0))
    IN  IF GtZero(rate)
        THEN [deck EXCEPT
                !.sampleRate = rate,
                !.trackLength = Rescaled(deck.trackLengthRaw, deck.trackLength, rate),
                !.cuePosition = Rescaled(deck.cuePositionRaw, deck.cuePosition, rate),
                !.currentLoopInPosition =
                    Rescaled(deck.loopInRaw, deck.currentLoopInPosition, rate),
                !.currentLoopOutPosition =
                    Rescaled(deck.loopOutRaw, deck.currentLoopOutPosition, rate)]
        ELSE [deck EXCEPT !.sampleRate = rate, !.trackLength = Num(0),
                          !.cuePosition = Num(0), !.currentLoopInPosition = Num(0),
                          !.currentLoopOutPosition = Num(0)]

\* A faulty case 'SampleRate': the rate is stored and nothing is recomputed.
SetSampleRate_StoresOnly(deck, value) ==
    [deck EXCEPT !.sampleRate = OrElse(parseInt(value), Num(0))]

\* case 'SampleRate': store the rate and, when it is positive, recompute the
\* seconds of every raw value that is set.
SetSampleRate(deck, value) ==
    LET rate == OrElse(parseInt(value), Num(0))
    IN  IF GtZero(rate)
        THEN [deck EXCEPT
                !.sampleRate = rate,
                !.trackLength = Rescaled(deck.trackLengthRaw, deck.trackLength, rate),
                !.cuePosition = Rescaled(deck.cuePositionRaw, deck.cuePosition, rate),
                !.currentLoopInPosition =
                    Rescaled(deck.loopInRaw, deck.currentLoopInPosition, rate),
                !.currentLoopOutPosition =
                    Rescaled(deck.loopOutRaw, deck.currentLoopOutPosition, rate)]
        ELSE [deck EXCEPT !.sampleRate = rate]

\* A faulty SetPlayStatePath: a value above 1 is taken for a fraction too.
SetPlayStatePath_FractionOnly(deck, value) ==
    LET pathVal == OrElse(parseFloat(value), Num(0))
    IN  IF GeZero(pathVal) /\ GtZero(deck.trackLength)
        THEN [deck EXCEPT !.currentPosition = Mul(pathVal, deck.trackLength)]
        ELSE deck

\* case 'PlayStatePath': a fraction of the track, or a position in samples.
SetPlayStatePath(deck, value) ==
    LET pathVal == OrElse(parseFloat(value), Num(0))
    IN  IF GeZero(pathVal) /\ LeOne(pathVal) /\ GtZero(deck.trackLength)
        THEN [deck EXCEPT !.currentPosition = Mul(pathVal, deck.trackLength)]
        ELSE IF GtOne(pathVal)
        THEN [deck EXCEPT !.currentPosition = SecondsOf(deck, pathVal)]
        ELSE deck

\* A faulty case 'CurrentKeyIndex': the label of the index is not derived.
SetCurrentKeyIndex_KeepsLabel(deck, value) ==
    [deck EXCEPT !.currentKeyIndex = parseInt(value)]

\* case 'CurrentKeyIndex'
SetCurrentKeyIndex(deck, value) ==
    LET index == parseInt(value)
    IN  [deck EXCEPT !.currentKeyIndex = index, !.currentKey = KeyLabel(index)]

\* case 'KeyLock': value === true || Number(value) > 0
SetKeyLock(deck, value) ==
    [deck EXCEPT !.keyLock = (value = Bool(TRUE)) \/ GtZero(Number(value))]

\* String(value || '')
StringOrEmpty(value) == Str(String(OrElse(value, Str(<<>>))))

\* parseFloat(value) || 0
FloatOrZero(value) == OrElse(parseFloat(value), Num(0))

\* The switch of _applyRawDeckState on one deck record.
RawDeckField(deck, key, value) ==
    CASE key = <<"A","r","t","i","s","t","N","a","m","e">> -> [deck EXCEPT !.artistName = StringOrEmpty(value)]
      [] key = <<"S","o","n","g","N","a","m","e">> ->
            [deck EXCEPT !.songName = StringOrEmpty(value),
                         !.trackName = StringOrEmpty(value)]
      [] key = <<"T","r","a","c","k","N","a","m","e">> -> [deck EXCEPT !.trackUri = StringOrEmpty(value)]
      [] key = <<"T","r","a","c","k","L","e","n","g","t","h">> -> SetTrackLength(deck, value)
      [] key = <<"T","r","a","c","k","U","r","i">> -> [deck EXCEPT !.trackUri = StringOrEmpty(value)]
      [] key = <<"T","r","a","c","k","N","e","t","w","o","r","k","P","a","t","h">> ->
            [deck EXCEPT !.trackNetworkPath = StringOrEmpty(value)]
      [] key = <<"S","a","m","p","l","e","R","a","t","e">> -> SetSampleRate(deck, value)
      [] key = <<"S","o","n","g","L","o","a","d","e","d">> -> [deck EXCEPT !.songLoaded = ToBoolean(value)]
      [] key = <<"S","o","n","g","A","n","a","l","y","z","e","d">> -> [deck EXCEPT !.songAnalyzed = ToBoolean(value)]
      [] key = <<"P","l","a","y">> -> [deck EXCEPT !.play = ToBoolean(value)]
      [] key = <<"P","l","a","y","S","t","a","t","e">> -> [deck EXCEPT !.playState = ToBoolean(value)]
      [] key = <<"P","l","a","y","S","t","a","t","e","P","a","t","h">> -> SetPlayStatePath(deck, value)
      [] key = <<"C","u","r","r","e","n","t","B","P","M">> -> [deck EXCEPT !.currentBPM = FloatOrZero(value)]
      [] key = <<"T","r","a","c","k","B","P","M">> -> [deck EXCEPT !.trackBPM = FloatOrZero(value)]
      [] key = <<"S","p","e","e","d">> -> [deck EXCEPT !.speed = FloatOrZero(value)]
      [] key = <<"S","p","e","e","d","R","a","n","g","e">> -> [deck EXCEPT !.speedRange = FloatOrZero(value)]
      [] key = <<"S","y","n","c","M","o","d","e">> ->
            [deck EXCEPT !.syncMode = OrElse(parseInt(value), Num(0))]
      [] key = <<"D","e","c","k","I","s","M","a","s","t","e","r">> -> [deck EXCEPT !.deckIsMaster = ToBoolean(value)]
      [] key = <<"M","a","s","t","e","r","T","e","m","p","o">> -> [deck EXCEPT !.masterTempo = FloatOrZero(value)]
      [] key = <<"C","u","r","r","e","n","t","K","e","y","I","n","d","e","x">> -> SetCurrentKeyIndex(deck, value)
      [] key = <<"K","e","y","L","o","c","k">> -> SetKeyLock(deck, value)
      [] key = <<"E","x","t","e","r","n","a","l","S","c","r","a","t","c","h","W","h","e","e","l","T","o","u","c","h">> ->
            [deck EXCEPT !.externalScratchWheelTouch = ToBoolean(value)]
      [] key = <<"E","x","t","e","r","n","a","l","M","i","x","e","r","V","o","l","u","m","e">> ->
            [deck EXCEPT !.externalMixerVolume = FloatOrZero(value)]
      [] key = <<"C","u","e","P","o","s","i","t","i","o","n">> -> SetCuePosition(deck, value)
      [] key = <<"L","o","o","p","E","n","a","b","l","e","S","t","a","t","e">> ->
            [deck EXCEPT !.loopEnableState = ToBoolean(value)]
      [] key = <<"C","u","r","r","e","n","t","L","o","o","p","I","n","P","o","s","i","t","i","o","n">> -> SetLoopIn(deck, value)
      [] key = <<"C","u","r","r","e","n","t","L","o","o","p","O","u","t","P","o","s","i","t","i","o","n">> -> SetLoopOut(deck, value)
      [] key = <<"C","u","r","r","e","n","t","L","o","o","p","S","i","z","e","I","n","B","e","a","t","s">> ->
            [deck EXCEPT !.currentLoopSizeInBeats = FloatOrZero(value)]
      [] OTHER -> deck

\* A faulty reducer: the update reaches the next deck as well.
_applyRawDeckState_NextDeckToo(st, deckNum, key, value) ==
    LET next == (deckNum % 4) + 1
    IN  [st EXCEPT !.decks[deckNum] = RawDeckField(st.decks[deckNum], key, value),
                   !.decks[next] = RawDeckField(st.decks[next], key, value)]

\* A faulty reducer: a key that changes nothing is taken for the title.
_applyRawDeckState_DefaultsToTitle(st, deckNum, key, value) ==
    LET deck == RawDeckField(st.decks[deckNum], key, value)
    IN  IF deck = st.decks[deckNum]
        THEN [st EXCEPT !.decks[deckNum].songName = StringOrEmpty(value)]
        ELSE [st EXCEPT !.decks[deckNum] = deck]

_applyRawDeckState(st, deckNum, key, value) ==
    [st EXCEPT !.decks[deckNum] = RawDeckField(st.decks[deckNum], key, value)]

\* A faulty mixer reducer: channel 2 is written to the field of channel 1.
_applyMixerState_WrongChannel(st, key, value) ==
    CASE key = <<"C","H","1","f","a","d","e","r","P","o","s","i","t","i","o","n">> -> [st EXCEPT !.mixer.ch1Fader = FloatOrZero(value)]
      [] key = <<"C","H","2","f","a","d","e","r","P","o","s","i","t","i","o","n">> -> [st EXCEPT !.mixer.ch1Fader = FloatOrZero(value)]
      [] key = <<"C","H","3","f","a","d","e","r","P","o","s","i","t","i","o","n">> -> [st EXCEPT !.mixer.ch3Fader = FloatOrZero(value)]
      [] key = <<"C","H","4","f","a","d","e","r","P","o","s","i","t","i","o","n">> -> [st EXCEPT !.mixer.ch4Fader = FloatOrZero(value)]
      [] key = <<"C","r","o","s","s","f","a","d","e","r","P","o","s","i","t","i","o","n">> ->
            [st EXCEPT !.mixer.crossfader = FloatOrZero(value)]
      [] OTHER -> st

\* A faulty mixer reducer: every level is brought into 0..1.
_applyMixerState_Clamped(st, key, value) ==
    LET level == FloatOrZero(value)
        clamped == IF GtZero(level)
                   THEN IF level.n > level.d THEN Num(1) ELSE level
                   ELSE Num(0)
    IN  CASE key = <<"C","H","1","f","a","d","e","r","P","o","s","i","t","i","o","n">> -> [st EXCEPT !.mixer.ch1Fader = clamped]
          [] key = <<"C","H","2","f","a","d","e","r","P","o","s","i","t","i","o","n">> -> [st EXCEPT !.mixer.ch2Fader = clamped]
          [] key = <<"C","H","3","f","a","d","e","r","P","o","s","i","t","i","o","n">> -> [st EXCEPT !.mixer.ch3Fader = clamped]
          [] key = <<"C","H","4","f","a","d","e","r","P","o","s","i","t","i","o","n">> -> [st EXCEPT !.mixer.ch4Fader = clamped]
          [] key = <<"C","r","o","s","s","f","a","d","e","r","P","o","s","i","t","i","o","n">> -> [st EXCEPT !.mixer.crossfader = clamped]
          [] OTHER -> st

\* The switch of _applyMixerState.
_applyMixerState(st, key, value) ==
    CASE key = <<"C","H","1","f","a","d","e","r","P","o","s","i","t","i","o","n">> -> [st EXCEPT !.mixer.ch1Fader = FloatOrZero(value)]
      [] key = <<"C","H","2","f","a","d","e","r","P","o","s","i","t","i","o","n">> -> [st EXCEPT !.mixer.ch2Fader = FloatOrZero(value)]
      [] key = <<"C","H","3","f","a","d","e","r","P","o","s","i","t","i","o","n">> -> [st EXCEPT !.mixer.ch3Fader = FloatOrZero(value)]
      [] key = <<"C","H","4","f","a","d","e","r","P","o","s","i","t","i","o","n">> -> [st EXCEPT !.mixer.ch4Fader = FloatOrZero(value)]
      [] key = <<"C","r","o","s","s","f","a","d","e","r","P","o","s","i","t","i","o","n">> ->
            [st EXCEPT !.mixer.crossfader = FloatOrZero(value)]
      [] OTHER -> st

(***************************************************************************)
(* The path dispatcher.                                                    *)
(***************************************************************************)
\* path.match(prefix (\d) / (.*)): the leftmost place where prefix, one digit
\* and a slash follow each other; the digit and the text after the slash.
MatchDeckPath(path, prefix) ==
    LET at(i) == /\ SubSeq(path, i, i + Len(prefix) - 1) = prefix
                 /\ IsDigit(path[i + Len(prefix)])
                 /\ path[i + Len(prefix) + 1] = "/"
        hits == {i \in 1..(Len(path) - Len(prefix) - 1) : at(i)}
        first == CHOOSE i \in hits : \A j \in hits : i <= j
    IN  IF hits = {} THEN [ok |-> FALSE, deckNum |-> 0, rest |-> <<>>]
        ELSE [ok |-> TRUE,
              deckNum |-> DigitVal(path[first + Len(prefix)]),
              rest |-> SubSeq(path, first + Len(prefix) + 2, Len(path))]

\* path.match(/\/Mixer\/(.*)/)
MatchMixerPath(path) ==
    LET i == IndexOf(path, <<"/","M","i","x","e","r","/">>, 1)
    IN  IF i = 0 THEN [ok |-> FALSE, rest |-> <<>>]
        ELSE [ok |-> TRUE, rest |-> SubSeq(path, i + Len(<<"/","M","i","x","e","r","/">>), Len(path))]

\* A faulty EngineKey: 'Track/' stays in the key.
EngineKey_KeepsTrack(rest) ==
    IF rest = <<"T","r","a","c","k","/","C","u","r","r","e","n","t","B","P","M">> THEN <<"T","r","a","c","k","B","P","M">> ELSE rest

\* A faulty EngineKey: Track/CurrentBPM loses its prefix like the other keys.
EngineKey_NoRemap(rest) == Replace(rest, <<"T","r","a","c","k","/">>, <<>>)

\* The field key of an engine path: Track/CurrentBPM is the track's own
\* tempo; otherwise the first 'Track/' of the text is removed.
EngineKey(rest) ==
    IF rest = <<"T","r","a","c","k","/","C","u","r","r","e","n","t","B","P","M">> THEN <<"T","r","a","c","k","B","P","M">>
    ELSE Replace(rest, <<"T","r","a","c","k","/">>, <<>>)

\* A faulty ActiveDeckOf: the word 'Deck' is left in the text.
ActiveDeckOf_KeepsWord(value) == OrElse(parseInt(Str(String(value))), Num(1))

\* The value of the GUI's active deck: the integer in the text, else 1.
ActiveDeckOf(value) ==
    LET strVal == String(value)
    IN  IF Includes(strVal, <<"D","e","c","k">>)
        THEN OrElse(parseInt(Str(Replace(strVal, <<"D","e","c","k">>, <<>>))), Num(1))
        ELSE OrElse(parseInt(Str(strVal)), Num(1))

\* A faulty WithDeckCount: the parsed value is stored without a default.
WithDeckCount_NoDefault(st, path, value) ==
    IF Includes(path, <<"D","e","c","k","C","o","u","n","t">>)
    THEN [st EXCEPT !.device.deckCount = parseInt(value)]
    ELSE st

\* if (path.includes('DeckCount')) deckCount = parseInt(value) || 2
WithDeckCount(st, path, value) ==
    IF Includes(path, <<"D","e","c","k","C","o","u","n","t">>)
    THEN [st EXCEPT !.device.deckCount = OrElse(parseInt(value), Num(2))]
    ELSE st

\* A faulty ProcessOtherPath: the three exact paths are looked for anywhere
\* in the path.
ProcessOtherPath_Loose(st, path, value) ==
    LET st1 == WithDeckCount(st, path, value)
        clientDeckMatch == MatchDeckPath(path, <<"/","C","l","i","e","n","t","/","D","e","c","k">>)
    IN  IF clientDeckMatch.ok
        THEN IF clientDeckMatch.deckNum \in DOMAIN st1.decks
             THEN _applyRawDeckState(st1, clientDeckMatch.deckNum,
                                     clientDeckMatch.rest, value)
             ELSE st1
        ELSE IF Includes(path, <<"/","C","l","i","e","n","t","/","L","i","b","r","a","r","i","a","n","/","D","e","v","i","c","e","s","C","o","n","t","r","o","l","l","e","r","/","H","a","s","S","D","C","a","r","d","C","o","n","n","e","c","t","e","d">>)
        THEN [st1 EXCEPT !.device.hasSDCard = ToBoolean(value)]
        ELSE IF Includes(path, <<"/","C","l","i","e","n","t","/","L","i","b","r","a","r","i","a","n","/","D","e","v","i","c","e","s","C","o","n","t","r","o","l","l","e","r","/","H","a","s","U","s","b","D","e","v","i","c","e","C","o","n","n","e","c","t","e","d">>)
        THEN [st1 EXCEPT !.device.hasUsb = ToBoolean(value)]
        ELSE IF Includes(path, <<"/","G","U","I","/","D","e","c","k","s","/","D","e","c","k","/","A","c","t","i","v","e","D","e","c","k">>)
        THEN [st1 EXCEPT !.device.activeDeck = ActiveDeckOf(value)]
        ELSE st1

\* A faulty ProcessOtherPath: the client key is normalized like an engine
\* key.
ProcessOtherPath_Normalizes(st, path, value) ==
    LET st1 == WithDeckCount(st, path, value)
        clientDeckMatch == MatchDeckPath(path, <<"/","C","l","i","e","n","t","/","D","e","c","k">>)
    IN  IF clientDeckMatch.ok
        THEN IF clientDeckMatch.deckNum \in DOMAIN st1.decks
             THEN _applyRawDeckState(st1, clientDeckMatch.deckNum,
                                     EngineKey(clientDeckMatch.rest), value)
             ELSE st1
        ELSE IF path = <<"/","C","l","i","e","n","t","/","L","i","b","r","a","r","i","a","n","/","D","e","v","i","c","e","s","C","o","n","t","r","o","l","l","e","r","/","H","a","s","S","D","C","a","r","d","C","o","n","n","e","c","t","e","d">>
        THEN [st1 EXCEPT !.device.hasSDCard = ToBoolean(value)]
        ELSE IF path = <<"/","C","l","i","e","n","t","/","L","i","b","r","a","r","i","a","n","/","D","e","v","i","c","e","s","C","o","n","t","r","o","l","l","e","r","/","H","a","s","U","s","b","D","e","v","i","c","e","C","o","n","n","e","c","t","e","d">>
        THEN [st1 EXCEPT !.device.hasUsb = ToBoolean(value)]
        ELSE IF path = <<"/","G","U","I","/","D","e","c","k","s","/","D","e","c","k","/","A","c","t","i","v","e","D","e","c","k">>
        THEN [st1 EXCEPT !.device.activeDeck = ActiveDeckOf(value)]
        ELSE st1

\* The paths below the engine and mixer patterns (lines 340 to 375).
ProcessOtherPath(st, path, value) ==
    LET st1 == WithDeckCount(st, path, value)
        clientDeckMatch == MatchDeckPath(path, <<"/","C","l","i","e","n","t","/","D","e","c","k">>)
    IN  IF clientDeckMatch.ok
        THEN IF clientDeckMatch.deckNum \in DOMAIN st1.decks
             THEN _applyRawDeckState(st1, clientDeckMatch.deckNum,
                                     clientDeckMatch.rest, value)
             ELSE st1
        ELSE IF path = <<"/","C","l","i","e","n","t","/","L","i","b","r","a","r","i","a","n","/","D","e","v","i","c","e","s","C","o","n","t","r","o","l","l","e","r","/","H","a","s","S","D","C","a","r","d","C","o","n","n","e","c","t","e","d">>
        THEN [st1 EXCEPT !.device.hasSDCard = ToBoolean(value)]
        ELSE IF path = <<"/","C","l","i","e","n","t","/","L","i","b","r","a","r","i","a","n","/","D","e","v","i","c","e","s","C","o","n","t","r","o","l","l","e","r","/","H","a","s","U","s","b","D","e","v","i","c","e","C","o","n","n","e","c","t","e","d">>
        THEN [st1 EXCEPT !.device.hasUsb = ToBoolean(value)]
        ELSE IF path = <<"/","G","U","I","/","D","e","c","k","s","/","D","e","c","k","/","A","c","t","i","v","e","D","e","c","k">>
        THEN [st1 EXCEPT !.device.activeDeck = ActiveDeckOf(value)]
        ELSE st1

\* A faulty dispatcher: an engine deck number that is not tracked counts as
\* the last deck.
_processRawStateChange_LastDeck(st, path, value) ==
    LET deckMatch == MatchDeckPath(path, <<"/","E","n","g","i","n","e","/","D","e","c","k">>)
        mixerMatch == MatchMixerPath(path)
    IN  IF path = <<>> THEN st
        ELSE IF deckMatch.ok
        THEN _applyRawDeckState(st,
                 IF deckMatch.deckNum \in DOMAIN st.decks THEN deckMatch.deckNum ELSE 4,
                 EngineKey(deckMatch.rest), value)
        ELSE IF mixerMatch.ok
        THEN _applyMixerState(st, mixerMatch.rest, value)
        ELSE ProcessOtherPath(st, path, value)

\* _processRawStateChange(path, value) on the tree st; path is a string.
_processRawStateChange(st, path, value) ==
    LET deckMatch == MatchDeckPath(path, <<"/","E","n","g","i","n","e","/","D","e","c","k">>)
        mixerMatch == MatchMixerPath(path)
    IN  IF path = <<>> THEN st
        ELSE IF deckMatch.ok
        THEN IF deckMatch.deckNum \in DOMAIN st.decks
             THEN _applyRawDeckState(st, deckMatch.deckNum,
                                     EngineKey(deckMatch.rest), value)
             ELSE st
        ELSE IF mixerMatch.ok
        THEN _applyMixerState(st, mixerMatch.rest, value)
        ELSE ProcessOtherPath(st, path, value)

(***************************************************************************)
(* The player-status merger.  A status object is a record of values; an    *)
(* absent field is Undefined.                                              *)
(***************************************************************************)
NoStatus ==
    [deck |-> Undefined, player |-> Undefined, title |-> Undefined,
     artist |-> Undefined, songLoaded |-> Undefined, play |-> Undefined,
     playState |-> Undefined, currentBpm |-> Undefined, trackBpm |-> Undefined,
     speed |-> Undefined, syncMode |-> Undefined, masterStatus |-> Undefined,
     masterTempo |-> Undefined, externalMixerVolume |-> Undefined,
     trackNetworkPath |-> Undefined, trackPath |-> Undefined,
     fileLocation |-> Undefined, dbSourceName |-> Undefined,
     jogColor |-> Undefined, hotcue |-> [i \in HotcueSlots |-> Undefined],
     address |-> Undefined, source |-> Undefined]

\* The table of _resolveDeckNumber: map[String(status.deck)].
DeckLetterMap(cs) ==
    CASE cs \in {<<"A">>, <<"1">>} -> Num(1)
      [] cs \in {<<"B">>, <<"2">>} -> Num(2)
      [] cs \in {<<"C">>, <<"3">>} -> Num(3)
      [] cs \in {<<"D">>, <<"4">>} -> Num(4)
      [] OTHER -> Undefined

\* A faulty _resolveDeckNumber: the player index is looked at first.
_resolveDeckNumber_PlayerFirst(status) ==
    IF ToBoolean(status.player)
    THEN OrElse(parseInt(status.player), Null)
    ELSE IF ToBoolean(status.deck)
    THEN OrElse(DeckLetterMap(String(status.deck)), Null)
    ELSE Null

_resolveDeckNumber(status) ==
    IF ToBoolean(status.deck)
    THEN OrElse(DeckLetterMap(String(status.deck)), Null)
    ELSE IF ToBoolean(status.player)
    THEN OrElse(parseInt(status.player), Null)
    ELSE Null

\* A faulty IfPresent: a falsy field counts as absent.
IfPresent_Truthy(field, coerced, old) == IF ToBoolean(field) THEN coerced ELSE old

\* if (field !== undefined) target = coerced, for one field.
IfPresent(field, coerced, old) == IF field # Undefined THEN coerced ELSE old

\* A faulty BpmGuard: any tempo that is present is stored.
BpmGuard_PresenceOnly(bpm, old) == IF bpm # Undefined THEN bpm ELSE old

\* if (bpm !== undefined && bpm > 0) target = bpm
BpmGuard(bpm, old) == IF bpm # Undefined /\ GtZero(Number(bpm)) THEN bpm ELSE old

\* A faulty MergedTrackUri: fileLocation counts only without a trackPath.
MergedTrackUri_PathFirst(status, old) ==
    IF status.trackPath # Undefined THEN OrElse(status.trackPath, Str(<<>>))
    ELSE IF status.fileLocation # Undefined THEN OrElse(status.fileLocation, old)
    ELSE old

\* The display URI after lines 263 and 264: trackPath first, then fileLocation.
MergedTrackUri(status, old) ==
    LET afterPath == IfPresent(status.trackPath, OrElse(status.trackPath, Str(<<>>)), old)
    IN  IfPresent(status.fileLocation, OrElse(status.fileLocation, afterPath), afterPath)

\* A faulty hotcue merge: the mapping is replaced by the update's hotcues.
MergedHotcues_Replaces(status, old) ==
    [has |-> old.has \/ \E i \in HotcueSlots : ToBoolean(status.hotcue[i]),
     map |-> [i \in HotcueSlots |->
                IF ToBoolean(status.hotcue[i]) THEN status.hotcue[i] ELSE Undefined]]

\* The loop over hotcue1..hotcue8.
MergedHotcues(status, old) ==
    [has |-> old.has \/ \E i \in HotcueSlots : ToBoolean(status.hotcue[i]),
     map |-> [i \in HotcueSlots |->
                IF ToBoolean(status.hotcue[i]) THEN status.hotcue[i] ELSE old.map[i]]]

\* A faulty merge: the title reaches trackName only.
MergeStatusIntoDeck_TrackNameOnly(deck, status) ==
    [deck EXCEPT
        !.trackName = IfPresent(status.title, OrElse(status.title, Str(<<>>)), @),
        !.artistName = IfPresent(status.artist, OrElse(status.artist, Str(<<>>)), @),
        !.songLoaded = IfPresent(status.songLoaded, ToBoolean(status.songLoaded), @),
        !.play = IfPresent(status.play, ToBoolean(status.play), @),
        !.playState = IfPresent(status.playState, ToBoolean(status.playState), @),
        !.currentBPM = BpmGuard(status.currentBpm, @),
        !.trackBPM = BpmGuard(status.trackBpm, @),
        !.speed = IfPresent(status.speed, status.speed, @),
        !.syncMode = IfPresent(status.syncMode, status.syncMode, @),
        !.deckIsMaster = IfPresent(status.masterStatus, ToBoolean(status.masterStatus), @),
        !.masterTempo = IfPresent(status.masterTempo, status.masterTempo, @),
        !.externalMixerVolume =
            IfPresent(status.externalMixerVolume, status.externalMixerVolume, @),
        !.trackNetworkPath =
            IfPresent(status.trackNetworkPath,
                      OrElse(status.trackNetworkPath, Str(<<>>)), @),
        !.trackPath = IfPresent(status.trackPath, OrElse(status.trackPath, Str(<<>>)), @),
        !.trackUri = MergedTrackUri(status, @),
        !.dbSourceName =
            IfPresent(status.dbSourceName, OrElse(status.dbSourceName, Str(<<>>)), @),
        !.jogColor = IfPresent(status.jogColor, status.jogColor, @),
        !.hotcues = MergedHotcues(status, @)]

\* A faulty merge: a status cannot stop a deck that plays.
MergeStatusIntoDeck_PlaySticky(deck, status) ==
    [deck EXCEPT
        !.trackName = IfPresent(status.title, OrElse(status.title, Str(<<>>)), @),
        !.songName = IfPresent(status.title, OrElse(status.title, Str(<<>>)), @),
        !.artistName = IfPresent(status.artist, OrElse(status.artist, Str(<<>>)), @),
        !.songLoaded = IfPresent(status.songLoaded, ToBoolean(status.songLoaded), @),
        !.play = IfPresent(status.play, ToBoolean(status.play) \/ @, @),
        !.playState = IfPresent(status.playState, ToBoolean(status.playState), @),
        !.currentBPM = BpmGuard(status.currentBpm, @),
        !.trackBPM = BpmGuard(status.trackBpm, @),
        !.speed = IfPresent(status.speed, status.speed, @),
        !.syncMode = IfPresent(status.syncMode, status.syncMode, @),
        !.deckIsMaster = IfPresent(status.masterStatus, ToBoolean(status.masterStatus), @),
        !.masterTempo = IfPresent(status.masterTempo, status.masterTempo, @),
        !.externalMixerVolume =
            IfPresent(status.externalMixerVolume, status.externalMixerVolume, @),
        !.trackNetworkPath =
            IfPresent(status.trackNetworkPath,
                      OrElse(status.trackNetworkPath, Str(<<>>)), @),
        !.trackPath = IfPresent(status.trackPath, OrElse(status.trackPath, Str(<<>>)), @),
        !.trackUri = MergedTrackUri(status, @),
        !.dbSourceName =
            IfPresent(status.dbSourceName, OrElse(status.dbSourceName, Str(<<>>)), @),
        !.jogColor = IfPresent(status.jogColor, status.jogColor, @),
        !.hotcues = MergedHotcues(status, @)]

\* Lines 245 to 275 on the deck record.
MergeStatusIntoDeck(deck, status) ==
    [deck EXCEPT
        !.trackName = IfPresent(status.title, OrElse(status.title, Str(<<>>)), @),
        !.songName = IfPresent(status.title, OrElse(status.title, Str(<<>>)), @),
        !.artistName = IfPresent(status.artist, OrElse(status.artist, Str(<<>>)), @),
        !.songLoaded = IfPresent(status.songLoaded, ToBoolean(status.songLoaded), @),
        !.play = IfPresent(status.play, ToBoolean(status.play), @),
        !.playState = IfPresent(status.playState, ToBoolean(status.playState), @),
        !.currentBPM = BpmGuard(status.currentBpm, @),
        !.trackBPM = BpmGuard(status.trackBpm, @),
        !.speed = IfPresent(status.speed, status.speed, @),
        !.syncMode = IfPresent(status.syncMode, status.syncMode, @),
        !.deckIsMaster = IfPresent(status.masterStatus, ToBoolean(status.masterStatus), @),
        !.masterTempo = IfPresent(status.masterTempo, status.masterTempo, @),
        !.externalMixerVolume =
            IfPresent(status.externalMixerVolume, status.externalMixerVolume, @),
        !.trackNetworkPath =
            IfPresent(status.trackNetworkPath,
                      OrElse(status.trackNetworkPath, Str(<<>>)), @),
        !.trackPath = IfPresent(status.trackPath, OrElse(status.trackPath, Str(<<>>)), @),
        !.trackUri = MergedTrackUri(status, @),
        !.dbSourceName =
            IfPresent(status.dbSourceName, OrElse(status.dbSourceName, Str(<<>>)), @),
        !.jogColor = IfPresent(status.jogColor, status.jogColor, @),
        !.hotcues = MergedHotcues(status, @)]

\* A faulty device merge: a status without an address or a source clears
\* the device's.
MergeStatusIntoDevice_Overwrites(device, status) ==
    [device EXCEPT
        !.ip = OrElse(status.address, Str(<<>>)),
        !.name = OrElse(status.source, Str(<<>>))]

\* Lines 277 to 279: the device's identity from the status.
MergeStatusIntoDevice(device, status) ==
    [device EXCEPT
        !.ip = IF ToBoolean(status.address) THEN status.address ELSE @,
        !.name = IF ToBoolean(status.source) THEN status.source ELSE @]

\* Whether deckNum, as _resolveDeckNumber returns it, names a deck of the tree:
\* deckNum is truthy and decks[deckNum] exists.
TracksDeck(st, deckNum) ==
    /\ ToBoolean(deckNum)
    /\ deckNum.t = "number" /\ deckNum.d = 1 /\ deckNum.n \in DOMAIN st.decks

\* A faulty _applyPlayerStatus: the device's identity is taken before the deck
\* is looked up.
_applyPlayerStatus_DeviceFirst(st, hasStatus, status) ==
    LET deckNum == _resolveDeckNumber(status)
        st1 == [st EXCEPT !.device = MergeStatusIntoDevice(@, status)]
    IN  IF ~hasStatus THEN st
        ELSE IF ~TracksDeck(st, deckNum) THEN st1
        ELSE [st1 EXCEPT !.decks[deckNum.n] = MergeStatusIntoDeck(@, status)]

\* _applyPlayerStatus(status) on the tree st; hasStatus is false for a null
\* or undefined status.
_applyPlayerStatus(st, hasStatus, status) ==
    LET deckNum == _resolveDeckNumber(status)
    IN  IF ~hasStatus THEN st
        ELSE IF ~TracksDeck(st, deckNum) THEN st
        ELSE [st EXCEPT
                !.decks[deckNum.n] = MergeStatusIntoDeck(@, status),
                !.device = MergeStatusIntoDevice(@, status)]

(***************************************************************************)
(* The manager.  Its fields are the variables below; the operators of this *)
(* section work on the record Mgr of them, so that stop() followed by      *)
(* start(), as restart() runs them, composes.  emits lists the events the  *)
(* running handler has emitted so far.                                     *)
(*                                                                         *)
(* stagelinqInstance is 0 for null, else the number of the library         *)
(* instance it refers to; alive holds the instances that are connected and *)
(* whose handlers feed this manager.  _demoInterval says whether the       *)
(* handle is set; leakedTimers counts interval timers that run with no     *)
(* handle left to clear them.  discoveredDevices is the Map from address   *)
(* to device entry, as a set of entries with one entry per address (the    *)
(* lastSeen time stamps are left out).                                     *)
(***************************************************************************)
VARIABLES state, connected, demoMode, stagelinqInstance, _demoInterval,
          _connectedIp, discoveredDevices, alive, connecting, leakedTimers,
          instances, booted, exited, pending, micro, stops, steps, last, prev,
          devices, clock, page

vars == <<state, connected, demoMode, stagelinqInstance, _demoInterval,
          _connectedIp, discoveredDevices, alive, connecting, leakedTimers,
          instances, booted, exited, pending, micro, stops, steps, last, prev,
          devices, clock, page>>

Mgr ==
    [state |-> state, connected |-> connected, demoMode |-> demoMode,
     stagelinqInstance |-> stagelinqInstance, _demoInterval |-> _demoInterval,
     _connectedIp |-> _connectedIp, discoveredDevices |-> discoveredDevices,
     alive |-> alive, connecting |-> connecting,
     leakedTimers |-> leakedTimers, instances |-> instances, emits |-> <<>>,
     sent |-> <<>>, flags |-> <<>>, ready |-> <<>>]

\* this.emit(event, ...): the events in their order, and for stateUpdate the
\* tree it carries, which the server serializes at once (broadcast), and
\* the connected flag at that moment.
Emit(m, event) ==
    [m EXCEPT !.emits = Append(@, event),
              !.sent = IF event = "stateUpdate" THEN Append(@, m.state) ELSE @,
              !.flags = IF event = "stateUpdate" THEN Append(@, m.connected) ELSE @]

\* A faulty demo deck: the track name is the file's, the song name the title.
DemoDeck1_FileName(deck) ==
    [deck EXCEPT !.trackName = Str(<<"S","t","r","o","b","e",".","m","p","3">>), !.songName = Str(<<"S","t","r","o","b","e">>),
                 !.songLoaded = TRUE, !.play = TRUE,
                 !.currentKeyIndex = Num(14), !.currentKey = Str(<<"8","A"," ","(","A","m",")">>)]

\* this.emit('deviceReady', info): the event with the device it names.
EmitReady(m, ip, deviceName, softwareName, softwareVersion) ==
    [Emit(m, "deviceReady") EXCEPT
        !.ready = Append(@, [ip |-> ip, deviceName |-> deviceName,
                             softwareName |-> softwareName,
                             softwareVersion |-> softwareVersion])]

\* The deck fields _startDemo assigns to deck 1 and to deck 2.
DemoDeck1(deck) ==
    [deck EXCEPT
        !.trackName = Str(<<"S","t","r","o","b","e">>), !.artistName = Str(<<"d","e","a","d","m","a","u","5">>),
        !.songName = Str(<<"S","t","r","o","b","e">>), !.trackLength = Rat(6378, 10),
        !.songLoaded = TRUE, !.songAnalyzed = TRUE,
        !.play = TRUE, !.playState = TRUE,
        !.currentBPM = Num(128), !.trackBPM = Num(128),
        !.speed = Num(0), !.speedRange = Rat(8, 100),
        !.syncMode = Num(1), !.deckIsMaster = TRUE, !.masterTempo = Num(1),
        !.currentKeyIndex = Num(14), !.currentKey = Str(<<"8","A"," ","(","A","m",")">>), !.keyLock = TRUE,
        !.externalScratchWheelTouch = FALSE, !.externalMixerVolume = Rat(8, 10),
        !.cuePosition = Rat(325, 10),
        !.loopEnableState = FALSE, !.currentLoopInPosition = Num(0),
        !.currentLoopOutPosition = Num(0), !.currentLoopSizeInBeats = Num(4)]

DemoDeck2(deck) ==
    [deck EXCEPT
        !.trackName = Str(<<"O","p","u","s">>), !.artistName = Str(<<"E","r","i","c"," ","P","r","y","d","z">>),
        !.songName = Str(<<"O","p","u","s">>), !.trackLength = Rat(5402, 10),
        !.songLoaded = TRUE, !.songAnalyzed = TRUE,
        !.play = FALSE, !.playState = FALSE,
        !.currentBPM = Rat(1265, 10), !.trackBPM = Num(126),
        !.speed = Rat(4, 1000), !.speedRange = Rat(8, 100),
        !.syncMode = Num(1), !.deckIsMaster = FALSE, !.masterTempo = Num(0),
        !.currentKeyIndex = Num(8), !.currentKey = Str(<<"5","A"," ","(","C","m",")">>), !.keyLock = FALSE,
        !.externalScratchWheelTouch = FALSE, !.externalMixerVolume = Num(0),
        !.cuePosition = Num(16),
        !.loopEnableState = TRUE, !.currentLoopInPosition = Num(64),
        !.currentLoopOutPosition = Num(80), !.currentLoopSizeInBeats = Num(8)]

\* discoveredDevices.set(ip, entry)
MapSet(map, entry) == {e \in map : e.ip # entry.ip} \cup {entry}

DeviceEntry(ip, name, software, version, port, status) ==
    [ip |-> ip, name |-> name, software |-> software, version |-> version,
     port |-> port, status |-> status]

DemoDevices ==
    {DeviceEntry(Str(<<"1","6","9",".","2","5","4",".","1","3",".","3","7">>), Str(<<"D","e","n","o","n"," ","P","r","i","m","e"," ","4">>), Str(<<"J","P","1","1">>),
                 Str(<<"3",".","4",".","0">>), Num(50000), "connected"),
     DeviceEntry(Str(<<"1","6","9",".","2","5","4",".","1","3",".","3","8">>), Str(<<"D","e","n","o","n"," ","S","C","6","0","0","0","M">>), Str(<<"J","P","1","1">>),
                 Str(<<"3",".","3",".","1">>), Num(50001), "discovered"),
     DeviceEntry(Str(<<"1","6","9",".","2","5","4",".","1","3",".","3","9">>), Str(<<"D","e","n","o","n"," ","X","1","8","5","0">>), Str(<<"J","P","1","1">>),
                 Str(<<"2",".","1",".","0">>), Num(50002), "discovered")}

\* _startDemo(): the demo device, two loaded decks, the mixer, and the timer.
\* A handle that is still set is overwritten: its timer keeps running.
_startDemo(m) ==
    LET st == m.state
        demo ==
            [decks |-> [i \in DOMAIN st.decks |->
                          CASE i = 1 -> DemoDeck1(st.decks[i])
                            [] i = 2 -> DemoDeck2(st.decks[i])
                            [] OTHER -> [st.decks[i] EXCEPT !.songLoaded = FALSE]],
             mixer |-> [st.mixer EXCEPT
                          !.ch1Fader = Rat(85, 100), !.ch2Fader = Num(0),
                          !.ch3Fader = Num(0), !.ch4Fader = Num(0),
                          !.crossfader = Rat(1, 2)],
             device |-> [st.device EXCEPT
                          !.name = Str(<<"D","e","n","o","n"," ","P","r","i","m","e"," ","4"," ","(","D","e","m","o",")">>),
                          !.ip = Str(<<"1","6","9",".","2","5","4",".","1","3",".","3","7">>),
                          !.softwareName = Str(<<"J","P","1","1">>),
                          !.softwareVersion = Str(<<"3",".","4",".","0">>),
                          !.connectionState = "connected",
                          !.deckCount = Num(4)]]
    IN  Emit(EmitReady([m EXCEPT
                          !.state = demo,
                          !._connectedIp = Str(<<"1","6","9",".","2","5","4",".","1","3",".","3","7">>),
                          !.discoveredDevices =
                             {e \in @ : \A x \in DemoDevices : x.ip # e.ip} \cup DemoDevices,
                          !.connected = TRUE,
                          !.leakedTimers = IF m._demoInterval THEN @ + 1 ELSE @,
                          !._demoInterval = TRUE],
                       demo.device.ip, demo.device.name,
                       demo.device.softwareName, demo.device.softwareVersion),
             "stateUpdate")

\* start(): the demo, or a new library instance whose connect() is awaited.
\* throws says that creating the instance fails (the catch of line 223).
start(m, throws) ==
    IF m.demoMode THEN _startDemo(m)
    ELSE IF throws
    THEN Emit([m EXCEPT !.state.device.connectionState = "error"], "stateUpdate")
    ELSE [m EXCEPT
            !.instances = @ + 1,
            !.stagelinqInstance = m.instances + 1,
            !.alive = @ \cup {m.instances + 1},
            !.connecting = @ \cup {m.instances + 1}]

\* A faulty head of stop(): the demo timer is left running.
StopHead_KeepsTimer(m) == m

\* stop() up to its await: lines 634 to 640.
StopHead(m) == [m EXCEPT !._demoInterval = FALSE]

\* A faulty tail of stop(): the mixer and the device are fresh, the decks stay.
StopTail_KeepsDecks(m) ==
    LET reset == [m EXCEPT !.connected = FALSE, !._connectedIp = Null,
                           !.state = [_createEmptyState EXCEPT !.decks = m.state.decks],
                           !.discoveredDevices = {}]
    IN  Emit(IF m.connected THEN Emit(reset, "deviceDisconnected") ELSE reset,
             "stateUpdate")

\* A faulty tail of stop(): the disconnection is notified in any case.
StopTail_AlwaysNotifies(m) ==
    Emit(Emit([m EXCEPT !.connected = FALSE, !._connectedIp = Null,
                        !.state = _createEmptyState,
                        !.discoveredDevices = {}],
              "deviceDisconnected"), "stateUpdate")

\* stop() from line 644: the flags, the fresh tree, the two events.
StopTail(m) ==
    LET reset == [m EXCEPT !.connected = FALSE, !._connectedIp = Null,
                           !.state = _createEmptyState,
                           !.discoveredDevices = {}]
    IN  Emit(IF m.connected THEN Emit(reset, "deviceDisconnected") ELSE reset,
             "stateUpdate")

\* stop() after its await: disconnect() of instance inst has settled, the
\* handle is set to null (line 642), then the tail runs.
StopResumed(m, inst) ==
    StopTail([m EXCEPT !.stagelinqInstance = 0, !.alive = @ \ {inst}])

\* What follows a stop(): restart() sets the mode and calls start(); the
\* shutdown handler exits.
AfterStop(m, then, throws) ==
    IF then = "exit" THEN m
    ELSE start([m EXCEPT !.demoMode = (then = "demo")], throws)

\* A faulty disconnectDevice: the tree is created anew.
disconnectDevice_Resets(m, ip) ==
    IF m._connectedIp = ip \/ m.state.device.ip = ip
    THEN Emit(Emit([m EXCEPT !.state = _createEmptyState,
                             !.connected = FALSE,
                             !._connectedIp = Null],
                   "deviceDisconnected"), "stateUpdate")
    ELSE m

\* disconnectDevice(ip): the entry of ip is marked discovered; if ip is the
\* connected device, the connection is marked disconnected in the tree.
disconnectDevice(m, ip) ==
    LET marked == [m EXCEPT !.discoveredDevices =
                        {IF e.ip = ip THEN [e EXCEPT !.status = "discovered"] ELSE e :
                            e \in @}]
    IN  IF m._connectedIp = ip \/ m.state.device.ip = ip
        THEN Emit(Emit([marked EXCEPT
                          !.state.device.connectionState = "disconnected",
                          !.connected = FALSE,
                          !._connectedIp = Null],
                       "deviceDisconnected"), "stateUpdate")
        ELSE marked


\* A faulty connectToDevice: the tree says connected, the flag is not set.
connectToDevice_NoFlag(m, ip) ==
    IF m.demoMode
    THEN Emit(Emit([m EXCEPT !.state.device.ip = ip,
                             !.state.device.connectionState = "connected",
                             !._connectedIp = ip],
                   "deviceReady"), "stateUpdate")
    ELSE m

\* connectToDevice(ip): in demo mode the entry of ip, or a new entry for it,
\* becomes the connected device; in live mode nothing is done.
connectToDevice(m, ip) ==
    LET known == {e \in m.discoveredDevices : e.ip = ip}
        entry == IF known # {}
                 THEN [(CHOOSE e \in known : TRUE) EXCEPT !.status = "connected"]
                 ELSE DeviceEntry(ip, Str(<<"M","a","n","u","a","l"," ","D","e","v","i","c","e"," ","@"," ">> \o String(ip)),
                                  Str(<<"S","t","a","g","e","l","i","n","Q">>), Str(<<"1",".","0",".","0">>), Num(0), "connected")
    IN  IF m.demoMode
        THEN Emit(EmitReady([m EXCEPT
                               !.discoveredDevices = MapSet(@, entry),
                               !.state.device.name = entry.name,
                               !.state.device.ip = ip,
                               !.state.device.connectionState = "connected",
                               !._connectedIp = ip,
                               !.connected = TRUE],
                            ip, entry.name, entry.software, entry.version),
                  "stateUpdate")
        ELSE m

(***************************************************************************)
(* The page in the browser, as the record page of its variables.           *)
(* sockets gives the readyState of each WebSocket the page has created     *)
(* ("none" for a slot no socket has, a closed socket's slot is taken       *)
(* again); ws is the slot of the socket the variable ws refers to, 0 for   *)
(* null.  reconnectTimer says whether the handle is set, timers counts     *)
(* the reconnect timers that are pending.  For the artwork of each deck:   *)
(* artworkRequestId, lastTrackPath, the content of the container           *)
(* ("initial", "placeholder", or the image of a request), the delay        *)
(* timers that are pending and the images that are loading, each with the  *)
(* request it belongs to.  did records what ran last.                      *)
(***************************************************************************)
MaxSockets == 2

PageDecks == {1, 2}

Idle == [kind |-> "none", deck |-> 0, req |-> 0]

NoPage ==
    [loaded |-> FALSE,
     sockets |-> [s \in 1..MaxSockets |-> "none"],
     ws |-> 0,
     reconnectTimer |-> FALSE,
     timers |-> 0,
     artworkRequestId |-> [d \in PageDecks |-> 0],
     lastTrackPath |-> [d \in PageDecks |-> Str(<<>>)],
     container |-> [d \in PageDecks |-> [kind |-> "initial", req |-> 0]],
     artTimers |-> {},
     loading |-> {},
     did |-> Idle]

\* The sockets that are not closed.
NonClosed(p) == {s \in 1..MaxSockets : p.sockets[s] \in {"connecting", "open", "closing"}}

\* The slots a new socket can take.
FreeSlots(p) == {s \in 1..MaxSockets : p.sockets[s] \in {"none", "closed"}}

\* connectWebSocket(): ws = new WebSocket(WS_URL), with its four handlers.
connectWebSocket(p) ==
    LET s == CHOOSE x \in FreeSlots(p) : \A y \in FreeSlots(p) : x <= y
    IN  [p EXCEPT !.sockets[s] = "connecting", !.ws = s]

\* A faulty scheduleReconnect: it also connects at once.
scheduleReconnect_AlsoConnects(p) ==
    IF p.reconnectTimer THEN p
    ELSE connectWebSocket([p EXCEPT !.reconnectTimer = TRUE, !.timers = @ + 1])

\* scheduleReconnect()
scheduleReconnect(p) ==
    IF p.reconnectTimer THEN p
    ELSE [p EXCEPT !.reconnectTimer = TRUE, !.timers = @ + 1]

\* clearReconnectTimer()
clearReconnectTimer(p) ==
    IF p.reconnectTimer
    THEN [p EXCEPT !.reconnectTimer = FALSE, !.timers = @ - 1]
    ELSE p

\* The callback of the reconnect timer.
OnReconnectTimer(p) ==
    connectWebSocket([p EXCEPT !.reconnectTimer = FALSE, !.timers = @ - 1])

\* ws.onerror: ws.close() on the socket ws refers to; closing a socket that
\* is closing or closed does nothing.
OnSocketError(p) ==
    IF p.ws # 0 /\ p.sockets[p.ws] \in {"connecting", "open"}
    THEN [p EXCEPT !.sockets[p.ws] = "closing"]
    ELSE p

\* clearArtwork(deckNum)
clearArtwork(p, deckNum) ==
    [p EXCEPT !.artworkRequestId[deckNum] = @ + 1,
              !.container[deckNum] = [kind |-> "placeholder", req |-> 0]]

\* loadArtwork(deckNum) up to setTimeout.
loadArtwork(p, deckNum) ==
    LET reqId == p.artworkRequestId[deckNum] + 1
    IN  [p EXCEPT !.artworkRequestId[deckNum] = reqId,
                  !.artTimers = @ \cup {[deck |-> deckNum, req |-> reqId]}]

\* The callback of loadArtwork's timer: a stale request returns, another
\* starts to load its image.
OnArtworkTimer(p, deckNum, reqId) ==
    LET fired == [p EXCEPT !.artTimers = @ \ {[deck |-> deckNum, req |-> reqId]}]
    IN  IF p.artworkRequestId[deckNum] # reqId THEN fired
        ELSE [fired EXCEPT !.loading = @ \cup {[deck |-> deckNum, req |-> reqId]}]

\* A faulty img.onload: the image is inserted whatever was requested since.
OnImageLoad_NoCheck(p, deckNum, reqId) ==
    [p EXCEPT !.loading = @ \ {[deck |-> deckNum, req |-> reqId]},
              !.container[deckNum] = [kind |-> "image", req |-> reqId]]

\* img.onload: a stale request returns, another inserts its image.
OnImageLoad(p, deckNum, reqId) ==
    LET loaded == [p EXCEPT !.loading = @ \ {[deck |-> deckNum, req |-> reqId]}]
    IN  IF p.artworkRequestId[deckNum] # reqId THEN loaded
        ELSE [loaded EXCEPT !.container[deckNum] = [kind |-> "image", req |-> reqId]]

\* updateDeck(num, deck), the artwork part: lines 189 to 198.
updateDeck(p, num, deck) ==
    LET currentPath == OrElse(OrElse(deck.trackNetworkPath, deck.trackPath), Str(<<>>))
    IN  IF ToBoolean(currentPath) /\ currentPath # p.lastTrackPath[num]
        THEN loadArtwork(clearArtwork([p EXCEPT !.lastTrackPath[num] = currentPath], num),
                         num)
        ELSE IF ~ToBoolean(currentPath) /\ ToBoolean(p.lastTrackPath[num])
        THEN clearArtwork([p EXCEPT !.lastTrackPath[num] = Str(<<>>)], num)
        ELSE p


(***************************************************************************)
(* The device history of the server: the list devices, in the order of     *)
(* the array.  Time stamps are readings of clock.  The file the list is    *)
(* saved to after each change holds what the list holds.                   *)
(***************************************************************************)
MaxClock == 2

\* a === b
StrictEquals(a, b) == a = b /\ a # NaN

\* d.ip === ip && d.deviceName === deviceName
SamePair(d, ip, deviceName) ==
    StrictEquals(d.ip, ip) /\ StrictEquals(d.deviceName, deviceName)

\* devices.findIndex(...) + 1: the first entry of the pair, 0 for none.
findIndex(devs, ip, deviceName) ==
    LET hits == {i \in 1..Len(devs) : SamePair(devs[i], ip, deviceName)}
    IN  IF hits = {} THEN 0 ELSE CHOOSE i \in hits : \A j \in hits : i <= j

\* A faulty upsert: the stored preference is kept for a known device.
upsert_KeepsPreference(devs, deviceInfo, now) ==
    LET idx == findIndex(devs, deviceInfo.ip, deviceInfo.deviceName)
        sw == OrElse(deviceInfo.softwareName, Str(<<>>))
        ver == OrElse(deviceInfo.softwareVersion, Str(<<>>))
    IN  IF idx > 0
        THEN [devs EXCEPT ![idx] =
                [@ EXCEPT !.softwareName = sw, !.softwareVersion = ver, !.lastSeen = now]]
        ELSE Append(devs, [ip |-> deviceInfo.ip, deviceName |-> deviceInfo.deviceName,
                           softwareName |-> sw, softwareVersion |-> ver,
                           lastSeen |-> now, autoConnect |-> Bool(TRUE),
                           firstSeen |-> now])

\* A faulty upsert: a known device is entered once more.
upsert_Appends(devs, deviceInfo, now) ==
    Append(devs, [ip |-> deviceInfo.ip, deviceName |-> deviceInfo.deviceName,
                  softwareName |-> OrElse(deviceInfo.softwareName, Str(<<>>)),
                  softwareVersion |-> OrElse(deviceInfo.softwareVersion, Str(<<>>)),
                  lastSeen |-> now, autoConnect |-> Bool(TRUE), firstSeen |-> now])

\* upsert(deviceInfo): the entry of the pair takes the new fields and keeps
\* the others ({ ...old, ...entry }); a new pair is appended with firstSeen.
upsert(devs, deviceInfo, now) ==
    LET idx == findIndex(devs, deviceInfo.ip, deviceInfo.deviceName)
        sw == OrElse(deviceInfo.softwareName, Str(<<>>))
        ver == OrElse(deviceInfo.softwareVersion, Str(<<>>))
    IN  IF idx > 0
        THEN [devs EXCEPT ![idx] =
                [@ EXCEPT !.ip = deviceInfo.ip, !.deviceName = deviceInfo.deviceName,
                          !.softwareName = sw, !.softwareVersion = ver,
                          !.lastSeen = now, !.autoConnect = Bool(TRUE)]]
        ELSE Append(devs, [ip |-> deviceInfo.ip, deviceName |-> deviceInfo.deviceName,
                           softwareName |-> sw, softwareVersion |-> ver,
                           lastSeen |-> now, autoConnect |-> Bool(TRUE),
                           firstSeen |-> now])

\* shouldAutoConnect(ip, deviceName)
shouldAutoConnect(devs, ip, deviceName) ==
    LET idx == findIndex(devs, ip, deviceName)
    IN  IF idx > 0 THEN devs[idx].autoConnect ELSE Bool(FALSE)

\* setAutoConnect(ip, deviceName, value)
setAutoConnect(devs, ip, deviceName, value) ==
    LET idx == findIndex(devs, ip, deviceName)
    IN  IF idx > 0 THEN [devs EXCEPT ![idx].autoConnect = value] ELSE devs

\* remove(ip, deviceName)
remove(devs, ip, deviceName) ==
    LET Other(d) == ~SamePair(d, ip, deviceName)
    IN  SelectSeq(devs, Other)

\* manager.on('deviceReady'): history.upsert for each event of a handler.
RECURSIVE OnDeviceReady(_, _, _)
OnDeviceReady(devs, infos, now) ==
    IF infos = <<>> THEN devs
    ELSE OnDeviceReady(upsert(devs, Head(infos), now), Tail(infos), now)

(***************************************************************************)
(* The event handlers start() registers, as operators on the manager.      *)
(***************************************************************************)
\* A service message: data.name, and data.json with its fields value, state,
\* string and color, or else data.value.
NoJson == [value |-> Undefined, state |-> Undefined, string |-> Undefined,
           color |-> Undefined]

JsonMessage(name, json) ==
    [hasMessage |-> TRUE, name |-> name, hasJson |-> TRUE, json |-> json,
     value |-> Undefined]

PlainMessage(name, value) ==
    [hasMessage |-> TRUE, name |-> name, hasJson |-> FALSE, json |-> NoJson,
     value |-> value]

\* The usual message: path and { value: v }.
ValueMessage(path, v) == JsonMessage(Str(path), [NoJson EXCEPT !.value = v])

\* Lines 167 to 174: the value of a message; a json object with none of the
\* four fields is the value itself.
MessageValue(data) ==
    IF data.hasJson
    THEN IF data.json.value # Undefined THEN data.json.value
         ELSE IF data.json.state # Undefined THEN data.json.state
         ELSE IF data.json.string # Undefined THEN data.json.string
         ELSE IF data.json.color # Undefined THEN data.json.color
         ELSE Obj(0)
    ELSE data.value

\* A faulty message handler: the state is emitted before the update.
OnMessage_EmitsFirst(m, data) ==
    IF data.hasMessage /\ ToBoolean(data.name)
    THEN [Emit(m, "stateUpdate") EXCEPT !.state =
                _processRawStateChange(@, data.name.s, MessageValue(data))]
    ELSE m

\* devices.on('message'): a message with a name is dispatched and the state
\* is emitted.  The names of the model's messages are strings.
OnMessage(m, data) ==
    IF data.hasMessage /\ ToBoolean(data.name)
    THEN Emit([m EXCEPT !.state =
                    _processRawStateChange(@, data.name.s, MessageValue(data))],
              "stateUpdate")
    ELSE m

\* devices.on('trackLoaded' | 'nowPlaying' | 'stateChanged').  The first two
\* log status.deck before anything else, which throws on a null status.
OnPlayerStatus(m, event, hasStatus, status) ==
    IF event # "stateChanged" /\ ~hasStatus THEN m
    ELSE Emit([m EXCEPT !.state = _applyPlayerStatus(@, hasStatus, status)],
              "stateUpdate")

\* One deck's part of a beat message.
BeatOnDeck(deck, deckBeat) ==
    [deck EXCEPT
        !.beatPosition = OrElse(deckBeat.beat, Num(0)),
        !.totalBeats = OrElse(deckBeat.totalBeats, Num(0)),
        !.currentPosition =
            IF ToBoolean(deckBeat.samples) /\ GtZero(deck.sampleRate)
            THEN Div(Number(deckBeat.samples), deck.sampleRate)
            ELSE @]

\* stagelinqInstance.on('beatMessage'): beats is beatData.decks, hasDecks
\* whether beatData and beatData.decks are there.
OnBeatMessage(m, hasDecks, beats) ==
    IF hasDecks
    THEN Emit([m EXCEPT !.state.decks =
                    [i \in DOMAIN @ |->
                        IF i <= Len(beats) THEN BeatOnDeck(@[i], beats[i]) ELSE @[i]]],
              "stateUpdate")
    ELSE m

\* devices.on('ready')
OnReady(m) ==
    Emit([m EXCEPT !.state.device.connectionState = "connected",
                   !.connected = TRUE],
         "stateUpdate")

\* devices.on('connected')
OnConnected(m, connInfo) ==
    LET ip == OrElse(connInfo.address, Str(<<>>))
        name == OrElse(connInfo.source, Str(<<"U","n","k","n","o","w","n">>))
        sw == OrElse(connInfo.softwareName, Str(<<>>))
        ver == OrElse(connInfo.softwareVersion, Str(<<>>))
    IN  Emit(EmitReady([m EXCEPT
                          !.discoveredDevices =
                             MapSet(@, DeviceEntry(ip, name, sw, ver,
                                                   OrElse(connInfo.port, Num(0)), "connected")),
                          !.state.device.name = name,
                          !.state.device.ip = ip,
                          !.state.device.softwareName = sw,
                          !.state.device.softwareVersion = ver,
                          !.state.device.connectionState = "connected",
                          !.connected = TRUE,
                          !._connectedIp = ip],
                       ip, name, sw, ver),
             "stateUpdate")

\* stagelinqInstance.on('listening')
OnListening(m) ==
    Emit([m EXCEPT !.state.device.connectionState = "discovering"], "stateUpdate")

\* The demo timer's callback.  The sines and the random number are any
\* values of their ranges; bpm, crossfader and volume are what they give.
OnDemoTick(m, bpm, crossfader, volume) ==
    Emit([m EXCEPT !.state.decks[1].currentBPM = bpm,
                   !.state.mixer.crossfader = crossfader,
                   !.state.decks[1].externalMixerVolume = volume],
         "stateUpdate")

\* connect() of instance inst rejects: the catch of start().
OnConnectFailed(m, inst) ==
    Emit([m EXCEPT !.state.device.connectionState = "error",
                   !.connecting = @ \ {inst},
                   !.alive = @ \ {inst}],
         "stateUpdate")

(***************************************************************************)
(* The actions.  Events, timer ticks and requests are tasks of the event   *)
(* loop: one runs at a time, and none runs while a continuation of an      *)
(* async function is queued (micro).  steps counts the updates and stops   *)
(* the calls of stop(); both are bounded.                                  *)
(***************************************************************************)
MaxSteps == 4

MaxStops == 1

NoInput == [path |-> <<>>, value |-> Undefined, hasStatus |-> FALSE, status |-> NoStatus]

\* The body of a request about the history, or the device of an event: the
\* address, the name, and the value that comes with them.
HistoryInput(ip, deviceName, value) ==
    [NoInput EXCEPT !.status = [NoStatus EXCEPT !.address = ip, !.source = deviceName],
                    !.value = value]

Init ==
    /\ state = _createEmptyState
    /\ connected = FALSE
    /\ demoMode \in BOOLEAN
    /\ stagelinqInstance = 0
    /\ _demoInterval = FALSE
    /\ _connectedIp = Null
    /\ discoveredDevices = {}
    /\ alive = {}
    /\ connecting = {}
    /\ leakedTimers = 0
    /\ instances = 0
    /\ booted = FALSE
    /\ exited = FALSE
    /\ pending = <<>>
    /\ micro = <<>>
    /\ stops = 0
    /\ steps = 0
    /\ devices = <<>>
    /\ clock = 0
    /\ page = NoPage
    /\ last = [kind |-> "init", input |-> NoInput, emits |-> <<>>, sent |-> <<>>,
               flags |-> <<>>, was |-> FALSE, history |-> <<>>,
               at |-> 0]
    /\ prev = _createEmptyState

\* The manager's fields after a handler, and the record of what ran.
CommitManager(m, kind, input) ==
    /\ state' = m.state
    /\ connected' = m.connected
    /\ demoMode' = m.demoMode
    /\ stagelinqInstance' = m.stagelinqInstance
    /\ _demoInterval' = m._demoInterval
    /\ _connectedIp' = m._connectedIp
    /\ discoveredDevices' = m.discoveredDevices
    /\ alive' = m.alive
    /\ connecting' = m.connecting
    /\ leakedTimers' = m.leakedTimers
    /\ instances' = m.instances
    /\ last' = [kind |-> kind, input |-> input, emits |-> m.emits, sent |-> m.sent,
                flags |-> m.flags, was |-> connected, history |-> devices,
                at |-> clock]
    /\ prev' = state
    /\ page' = page

\* A handler of the manager: the server's listener of 'deviceReady' runs
\* within each emit of the event and enters the device in the history.
Commit(m, kind, input) ==
    /\ CommitManager(m, kind, input)
    /\ devices' = OnDeviceReady(devices, m.ready, clock)
    /\ clock' = clock

\* A task of the event loop may run.
TaskTurn == booted /\ ~exited /\ micro = <<>>

\* An event of a library instance may arrive, and counts as an update.
EventTurn == TaskTurn /\ alive # {} /\ steps < MaxSteps

\* server.listen's callback: manager.start().
Boot ==
    /\ ~booted
    /\ booted' = TRUE
    /\ \E throws \in BOOLEAN : Commit(start(Mgr, throws), "start", NoInput)
    /\ UNCHANGED <<exited, pending, micro, stops, steps>>

\* The input of a step of stop(): the connected flag when stop() was called.
CalledWith(flag) == [NoInput EXCEPT !.value = Bool(flag)]

\* A call of stop() with what follows it: restart(demo | live), or the
\* shutdown (exit).  With an instance, stop() waits for its disconnect();
\* without, it runs to its end and the caller's continuation is queued.
\* At most limit calls are made.
CallStopUpTo(thens, limit) ==
    \E then \in thens :
        /\ TaskTurn
        /\ stops < limit
        /\ stops' = stops + 1
        /\ IF stagelinqInstance # 0
           THEN /\ pending' = Append(pending, [inst |-> stagelinqInstance, then |-> then,
                                               called |-> connected])
                /\ micro' = micro
                /\ Commit(StopHead(Mgr), "stopAwait", CalledWith(connected))
           ELSE /\ pending' = pending
                /\ micro' = Append(micro, then)
                /\ Commit(StopTail(StopHead(Mgr)), "stop", CalledWith(connected))
        /\ UNCHANGED <<booted, exited, steps>>

CallStop(thens) == CallStopUpTo(thens, MaxStops)

\* disconnect() settles for one waiting stop(), which runs to its end.
StopResume ==
    \E i \in 1..Len(pending) :
        /\ ~exited
        /\ pending' = [j \in 1..(Len(pending) - 1) |->
                         IF j < i THEN pending[j] ELSE pending[j + 1]]
        /\ micro' = Append(micro, pending[i].then)
        /\ Commit(StopResumed(Mgr, pending[i].inst), "stop", CalledWith(pending[i].called))
        /\ UNCHANGED <<booted, exited, stops, steps>>

\* The continuation of the caller of stop().
Continue ==
    /\ ~exited
    /\ micro # <<>>
    /\ micro' = Tail(micro)
    /\ exited' = (Head(micro) = "exit")
    /\ \E throws \in BOOLEAN :
         Commit(AfterStop(Mgr, Head(micro), throws),
                IF Head(micro) = "exit" THEN "exit" ELSE "start", NoInput)
    /\ UNCHANGED <<booted, pending, stops, steps>>

\* A raw message.
Message(messages) ==
    \E data \in messages :
        /\ EventTurn
        /\ steps' = steps + 1
        /\ Commit(OnMessage(Mgr, data), "message",
                  [NoInput EXCEPT !.path = String(data.name),
                                  !.value = MessageValue(data)])
        /\ UNCHANGED <<booted, exited, pending, micro, stops>>

\* A player status, on one of its three events.
PlayerStatus(events, statuses) ==
    \E event \in events, hasStatus \in BOOLEAN, status \in statuses :
        /\ EventTurn
        /\ hasStatus \/ status = NoStatus
        /\ steps' = steps + 1
        /\ Commit(OnPlayerStatus(Mgr, event, hasStatus, status), event,
                  [NoInput EXCEPT !.hasStatus = hasStatus, !.status = status])
        /\ UNCHANGED <<booted, exited, pending, micro, stops>>

\* A beat message.
BeatMessage(beatLists) ==
    \E hasDecks \in BOOLEAN, beats \in beatLists :
        /\ EventTurn
        /\ hasDecks \/ beats = <<>>
        /\ steps' = steps + 1
        /\ Commit(OnBeatMessage(Mgr, hasDecks, beats), "beatMessage", NoInput)
        /\ UNCHANGED <<booted, exited, pending, micro, stops>>

\* The 'ready' event of the devices.
Ready ==
    /\ EventTurn
    /\ steps' = steps + 1
    /\ Commit(OnReady(Mgr), "ready", NoInput)
    /\ UNCHANGED <<booted, exited, pending, micro, stops>>

\* A tick of a demo timer that runs.
DemoTick(bpms, crossfaders, volumes) ==
    \E bpm \in bpms, crossfader \in crossfaders, volume \in volumes :
        /\ TaskTurn
        /\ _demoInterval \/ leakedTimers > 0
        /\ steps < MaxSteps
        /\ steps' = steps + 1
        /\ Commit(OnDemoTick(Mgr, bpm, crossfader, volume), "tick", NoInput)
        /\ UNCHANGED <<booted, exited, pending, micro, stops>>

\* The 'connected' event of the devices.
Connected(connInfos) ==
    \E connInfo \in connInfos :
        /\ EventTurn
        /\ steps' = steps + 1
        /\ Commit(OnConnected(Mgr, connInfo), "connected",
                  HistoryInput(connInfo.address, connInfo.source, connInfo.softwareVersion))
        /\ UNCHANGED <<booted, exited, pending, micro, stops>>

\* POST /api/disconnect with the address ip.
DisconnectDevice(ips) ==
    \E ip \in ips :
        /\ TaskTurn
        /\ steps < MaxSteps
        /\ steps' = steps + 1
        /\ Commit(disconnectDevice(Mgr, ip), "disconnect", [NoInput EXCEPT !.value = ip])
        /\ UNCHANGED <<booted, exited, pending, micro, stops>>


\* The 'listening' event of an instance.
Listening ==
    /\ EventTurn
    /\ steps' = steps + 1
    /\ Commit(OnListening(Mgr), "listening", NoInput)
    /\ UNCHANGED <<booted, exited, pending, micro, stops>>

\* connect() of an instance rejects, and the catch of its start() runs.
ConnectFailed ==
    \E inst \in connecting :
        /\ TaskTurn
        /\ steps < MaxSteps
        /\ steps' = steps + 1
        /\ Commit(OnConnectFailed(Mgr, inst), "connectFailed", NoInput)
        /\ UNCHANGED <<booted, exited, pending, micro, stops>>

\* POST /api/connect with the address ip.
ConnectToDevice(ips) ==
    \E ip \in ips :
        /\ TaskTurn
        /\ steps < MaxSteps
        /\ steps' = steps + 1
        /\ Commit(connectToDevice(Mgr, ip), "connect", [NoInput EXCEPT !.value = ip])
        /\ UNCHANGED <<booted, exited, pending, micro, stops>>

\* DELETE /api/history with ip and deviceName in the body.
RemoveRequest(pairs) ==
    \E pair \in pairs :
        /\ TaskTurn
        /\ steps < MaxSteps
        /\ steps' = steps + 1
        /\ CommitManager(Mgr, "remove", HistoryInput(pair.ip, pair.deviceName, Undefined))
        /\ devices' = remove(devices, pair.ip, pair.deviceName)
        /\ UNCHANGED <<booted, exited, pending, micro, stops, clock>>

\* POST /api/history/auto-connect with ip, deviceName and autoConnect.
AutoConnectRequest(pairs, values) ==
    \E pair \in pairs, value \in values :
        /\ TaskTurn
        /\ steps < MaxSteps
        /\ steps' = steps + 1
        /\ CommitManager(Mgr, "autoConnect", HistoryInput(pair.ip, pair.deviceName, value))
        /\ devices' = setAutoConnect(devices, pair.ip, pair.deviceName, value)
        /\ UNCHANGED <<booted, exited, pending, micro, stops, clock>>

\* Time passes: new Date() gives a later time stamp.
Advance ==
    /\ clock < MaxClock
    /\ clock' = clock + 1
    /\ UNCHANGED <<state, connected, demoMode, stagelinqInstance, _demoInterval,
                   _connectedIp, discoveredDevices, alive, connecting, leakedTimers,
                   instances, booted, exited, pending, micro, stops, steps, last,
                   prev, devices, page>>

(***************************************************************************)
(* The actions of the page.  Each is a task of the browser's event loop.   *)
(* The manager and the history are the server's and stay as they are.      *)
(***************************************************************************)
MaxRequests == 4

\* The page after a task, with what ran.
CommitPage(p, kind, deckNum, reqId) ==
    /\ page' = [p EXCEPT !.did = [kind |-> kind, deck |-> deckNum, req |-> reqId]]
    /\ UNCHANGED <<state, connected, demoMode, stagelinqInstance, _demoInterval,
                   _connectedIp, discoveredDevices, alive, connecting, leakedTimers,
                   instances, booted, exited, pending, micro, stops, steps, last,
                   prev, devices, clock>>

\* init(): the page connects.
LoadPage ==
    /\ ~page.loaded
    /\ CommitPage(connectWebSocket([page EXCEPT !.loaded = TRUE]), "connect", 0, 0)

\* The 'open' event of a socket.
SocketOpen ==
    \E s \in 1..MaxSockets :
        /\ page.sockets[s] = "connecting"
        /\ CommitPage(clearReconnectTimer([page EXCEPT !.sockets[s] = "open"]), "open", 0, 0)

\* The 'error' event of a socket: the connection has failed and the
\* socket's 'close' event follows; the handler closes ws.
SocketError ==
    \E s \in 1..MaxSockets :
        /\ page.sockets[s] \in {"connecting", "open"}
        /\ CommitPage(OnSocketError([page EXCEPT !.sockets[s] = "closing"]), "error", 0, 0)

\* The 'close' event of a socket that the server or the network closed.
SocketClose ==
    \E s \in 1..MaxSockets :
        /\ page.sockets[s] \in {"connecting", "open"}
        /\ CommitPage(scheduleReconnect([page EXCEPT !.sockets[s] = "closed"]), "close", 0, 0)

\* The 'close' event that follows close() or an error.
SocketCloseAfterClosing ==
    \E s \in 1..MaxSockets :
        /\ page.sockets[s] = "closing"
        /\ CommitPage(scheduleReconnect([page EXCEPT !.sockets[s] = "closed"]), "close", 0, 0)

\* The reconnect delay has elapsed.
ReconnectFires ==
    /\ page.timers > 0
    /\ FreeSlots(page) # {}
    /\ CommitPage(OnReconnectTimer(page), "connect", 0, 0)

\* A 'state' message on an open socket, as far as the artwork of one deck
\* goes: the deck has the path of one of the updates.
StateMessage(updates) ==
    \E s \in 1..MaxSockets, u \in updates :
        /\ page.sockets[s] = "open"
        /\ page.artworkRequestId[u.deck] + 2 <= MaxRequests
        /\ CommitPage(updateDeck(page, u.deck,
                                 [trackNetworkPath |-> u.path, trackPath |-> Undefined]),
                      "state", u.deck, 0)

\* The 800 ms of a request have elapsed.
ArtworkTimer ==
    \E t \in page.artTimers :
        CommitPage(OnArtworkTimer(page, t.deck, t.req), "timer", t.deck, t.req)

\* The image of a request has loaded.
ImageLoaded ==
    \E i \in page.loading :
        CommitPage(OnImageLoad(page, i.deck, i.req), "load", i.deck, i.req)

\* The image of a request has failed to load: the placeholder is kept.
ImageFailed ==
    \E i \in page.loading :
        CommitPage([page EXCEPT !.loading = @ \ {i}], "fail", i.deck, i.req)

(***************************************************************************)
(* Inputs and specifications.  Each specification draws its inputs from a  *)
(* small set that makes the cases of its claims happen.                    *)
(***************************************************************************)
EnginePath(deckNum, rest) == <<"/","E","n","g","i","n","e","/","D","e","c","k">> \o <<DigitChars[deckNum + 1]>> \o <<"/">> \o rest

\* The track fields of a deck arrive under Track/.
TrackPath(deckNum, key) == EnginePath(deckNum, <<"T","r","a","c","k","/">> \o key)

ClientPath(deckNum, rest) == <<"/","C","l","i","e","n","t","/","D","e","c","k">> \o <<DigitChars[deckNum + 1]>> \o <<"/">> \o rest

\* The manager is constructed for live mode.
InitLive == Init /\ demoMode = FALSE

\* The last step was the raw message (path, value).
LastMessage(path, value) ==
    last.kind = "message" /\ last.input.path = path /\ last.input.value = value

(***************************************************************************)
(* The sample-domain fields: key, raw field, seconds field.                *)
(***************************************************************************)
SampleKeys ==
    {<<"T","r","a","c","k","L","e","n","g","t","h">>, <<"C","u","e","P","o","s","i","t","i","o","n">>, <<"C","u","r","r","e","n","t","L","o","o","p","I","n","P","o","s","i","t","i","o","n">>, <<"C","u","r","r","e","n","t","L","o","o","p","O","u","t","P","o","s","i","t","i","o","n">>}

RawOf(deck, key) ==
    CASE key = <<"T","r","a","c","k","L","e","n","g","t","h">> -> deck.trackLengthRaw
      [] key = <<"C","u","e","P","o","s","i","t","i","o","n">> -> deck.cuePositionRaw
      [] key = <<"C","u","r","r","e","n","t","L","o","o","p","I","n","P","o","s","i","t","i","o","n">> -> deck.loopInRaw
      [] key = <<"C","u","r","r","e","n","t","L","o","o","p","O","u","t","P","o","s","i","t","i","o","n">> -> deck.loopOutRaw

SecondsFieldOf(deck, key) ==
    CASE key = <<"T","r","a","c","k","L","e","n","g","t","h">> -> deck.trackLength
      [] key = <<"C","u","e","P","o","s","i","t","i","o","n">> -> deck.cuePosition
      [] key = <<"C","u","r","r","e","n","t","L","o","o","p","I","n","P","o","s","i","t","i","o","n">> -> deck.currentLoopInPosition
      [] key = <<"C","u","r","r","e","n","t","L","o","o","p","O","u","t","P","o","s","i","t","i","o","n">> -> deck.currentLoopOutPosition

\* Raw values as a message carries them, with the sample count each stands for.
RawSamples ==
    {[in |-> Num(0), out |-> Num(0)],
     [in |-> Num(8), out |-> Num(8)],
     [in |-> Num(26400000), out |-> Num(26400000)],
     [in |-> Num(-6), out |-> Num(-6)],
     [in |-> Str(<<"6",".","5">>), out |-> Rat(13, 2)],
     [in |-> Str(<<"8","8","2","0","0"," ","s","m","p">>), out |-> Num(88200)],
     [in |-> Str(<<"n","/","a">>), out |-> Num(0)],
     [in |-> Null, out |-> Num(0)]}

\* Sample rates as a message carries them, with the rate each one stores.
SampleRates ==
    {[in |-> Num(44100), out |-> Num(44100)],
     [in |-> Num(2), out |-> Num(2)],
     [in |-> Str(<<"4">>), out |-> Num(4)],
     [in |-> Rat(5, 2), out |-> Num(2)],
     [in |-> Num(0), out |-> Num(0)],
     [in |-> Num(-4), out |-> Num(-4)],
     [in |-> Rat(1, 2), out |-> Num(0)],
     [in |-> Str(<<"f","a","s","t">>), out |-> Num(0)]}

\* v / r for two numbers, r not 0.
Quotient(v, r) == Rat(v.n * r.d, v.d * r.n)

SampleMessages ==
    {ValueMessage(TrackPath(1, <<"S","a","m","p","l","e","R","a","t","e">>), v) :
        v \in {Num(2), Str(<<"4">>), Num(0), Rat(1, 2), Str(<<"f","a","s","t">>)}}
    \cup {ValueMessage(TrackPath(1, <<"T","r","a","c","k","L","e","n","g","t","h">>), v) :
            v \in {Num(8), Str(<<"8","8","2","0","0"," ","s","m","p">>), Str(<<"n","/","a">>)}}
    \cup {ValueMessage(TrackPath(1, <<"C","u","e","P","o","s","i","t","i","o","n">>), Str(<<"6",".","5">>)),
          ValueMessage(EnginePath(3, <<"S","a","m","p","l","e","R","a","t","e">>), Num(44100)),
          ValueMessage(EnginePath(3, <<"S","a","m","p","l","e","R","a","t","e">>), Num(-4)),
          ValueMessage(EnginePath(3, <<"C","u","r","r","e","n","t","L","o","o","p","I","n","P","o","s","i","t","i","o","n">>), Num(26400000)),
          ValueMessage(EnginePath(3, <<"C","u","r","r","e","n","t","L","o","o","p","O","u","t","P","o","s","i","t","i","o","n">>), Num(-6))}

NextSample ==
    \/ Boot
    \/ Message(SampleMessages)

SpecSample == InitLive /\ [][NextSample]_vars

\* Raw updates, player statuses and resets of a live manager.
ReduceMessages ==
    {ValueMessage(TrackPath(2, <<"S","a","m","p","l","e","R","a","t","e">>), v) : v \in {Num(44100), Num(2), Num(0)}}
    \cup {ValueMessage(TrackPath(2, <<"C","u","e","P","o","s","i","t","i","o","n">>), Num(88200)),
          ValueMessage(TrackPath(2, <<"T","r","a","c","k","L","e","n","g","t","h">>), Str(<<"8">>)),
          ValueMessage(TrackPath(2, <<"C","u","r","r","e","n","t","L","o","o","p","I","n","P","o","s","i","t","i","o","n">>), Num(-6)),
          ValueMessage(TrackPath(2, <<"C","u","r","r","e","n","t","L","o","o","p","O","u","t","P","o","s","i","t","i","o","n">>), Str(<<"6",".","5">>))}

ReduceStatuses ==
    {[NoStatus EXCEPT !.deck = Str(<<"B">>), !.title = Str(<<"S","o","n","g">>), !.play = Bool(TRUE)],
     [NoStatus EXCEPT !.player = Num(2), !.trackBpm = Num(128), !.speed = Num(1)]}

NextReduce ==
    \/ Boot
    \/ Message(ReduceMessages)
    \/ PlayerStatus({"stateChanged"}, ReduceStatuses)
    \/ CallStop({"live"})
    \/ StopResume
    \/ Continue

SpecReduce == InitLive /\ [][NextReduce]_vars

\* The two tempo paths of the engine, on every deck.
BpmValues ==
    {[in |-> Num(128), out |-> Num(128)],
     [in |-> Str(<<"1","2","0",".","5">>), out |-> Rat(241, 2)],
     [in |-> Num(96), out |-> Num(96)]}

BpmMessages ==
    {ValueMessage(EnginePath(1, rest), v) :
        rest \in {<<"T","r","a","c","k","/","C","u","r","r","e","n","t","B","P","M">>, <<"C","u","r","r","e","n","t","B","P","M">>}, v \in {Num(128), Str(<<"1","2","0",".","5">>)}}
    \cup {ValueMessage(EnginePath(d, rest), Num(96)) :
            d \in 2..4, rest \in {<<"T","r","a","c","k","/","C","u","r","r","e","n","t","B","P","M">>, <<"C","u","r","r","e","n","t","B","P","M">>}}

NextBpm ==
    \/ Boot
    \/ Message(BpmMessages)

SpecBpm == InitLive /\ [][NextBpm]_vars

\* The last step was a player status that the handler passed on.
LastStatus == last.kind = "stateChanged" /\ last.input.hasStatus

\* Values a status field can carry, with their truthiness.
MergeValues ==
    {[in |-> Bool(FALSE), truthy |-> FALSE],
     [in |-> Num(0), truthy |-> FALSE],
     [in |-> Str(<<>>), truthy |-> FALSE],
     [in |-> Null, truthy |-> FALSE],
     [in |-> Bool(TRUE), truthy |-> TRUE],
     [in |-> Num(1), truthy |-> TRUE],
     [in |-> Str(<<"x">>), truthy |-> TRUE]}

\* A status for deck A whose fields other than the tempos and fileLocation
\* all carry v.
AllOf(v) ==
    [NoStatus EXCEPT
        !.deck = Str(<<"A">>), !.title = v, !.artist = v, !.songLoaded = v, !.play = v,
        !.playState = v, !.speed = v, !.syncMode = v, !.masterStatus = v,
        !.masterTempo = v, !.externalMixerVolume = v, !.trackNetworkPath = v,
        !.trackPath = v, !.dbSourceName = v, !.jogColor = v]

\* A status for deck A that carries fileLocation and no trackPath.
FileOnly(v) == [NoStatus EXCEPT !.deck = Str(<<"A">>), !.fileLocation = v]

MergeStatuses ==
    {AllOf(v.in) : v \in MergeValues}
    \cup {FileOnly(v.in) : v \in MergeValues}
    \cup {[NoStatus EXCEPT !.deck = Str(<<"A">>)],
          [NoStatus EXCEPT !.deck = Str(<<"A">>), !.play = Bool(FALSE)],
          [NoStatus EXCEPT !.deck = Str(<<"A">>), !.play = Bool(TRUE)]}

NextMerge ==
    \/ Boot
    \/ PlayerStatus({"stateChanged"}, MergeStatuses)

SpecMerge == InitLive /\ [][NextMerge]_vars

\* Tempos a status can carry, and whether each is above zero.
BpmCases ==
    {[in |-> Num(128), positive |-> TRUE],
     [in |-> Rat(257, 2), positive |-> TRUE],
     [in |-> Str(<<"9","6">>), positive |-> TRUE],
     [in |-> Num(0), positive |-> FALSE],
     [in |-> Num(-3), positive |-> FALSE],
     [in |-> Str(<<"0">>), positive |-> FALSE],
     [in |-> Null, positive |-> FALSE]}

GuardStatuses ==
    {[NoStatus EXCEPT !.deck = Str(<<"A">>), !.trackBpm = c.in] : c \in BpmCases}
    \cup {[NoStatus EXCEPT !.deck = Str(<<"A">>), !.currentBpm = v] :
            v \in {Rat(257, 2), Num(0), Num(-3)}}
    \cup {[NoStatus EXCEPT !.deck = Str(<<"B">>), !.trackBpm = Num(128), !.currentBpm = Num(0)],
          [NoStatus EXCEPT !.deck = Str(<<"B">>), !.trackBpm = Num(0), !.currentBpm = Num(128)],
          [NoStatus EXCEPT !.deck = Str(<<"A">>), !.title = Str(<<"S","o","n","g">>)]}

NextGuard ==
    \/ Boot
    \/ PlayerStatus({"trackLoaded", "nowPlaying", "stateChanged"}, GuardStatuses)

SpecGuard == InitLive /\ [][NextGuard]_vars

\* Statuses for deck A with and without trackPath and fileLocation.
UriStatuses ==
    {[NoStatus EXCEPT !.deck = Str(<<"A">>), !.trackPath = p, !.fileLocation = f] :
        p \in {Undefined, Str(<<"/","m","u","s","i","c","/","a",".","m","p","3">>), Str(<<>>)},
        f \in {Undefined, Str(<<"n","e","t",":","/","/","a">>), Str(<<>>)}}
    \cup {[NoStatus EXCEPT !.deck = Str(<<"A">>), !.trackPath = Str(<<"/","m","u","s","i","c","/","b",".","m","p","3">>),
                           !.fileLocation = Str(<<"n","e","t",":","/","/","b">>)]}

NextUri ==
    \/ Boot
    \/ PlayerStatus({"stateChanged"}, UriStatuses)

SpecUri == InitLive /\ [][NextUri]_vars

\* Deck identifiers and player indexes, with the deck each pair names.  An
\* identifier that is falsy (the empty string, 0) is no identifier.
ResolveCases ==
    {[deck |-> Str(<<"A">>), player |-> Num(2), target |-> 1],
     [deck |-> Str(<<"B">>), player |-> Num(3), target |-> 2],
     [deck |-> Str(<<"C">>), player |-> Num(4), target |-> 3],
     [deck |-> Str(<<"D">>), player |-> Num(1), target |-> 4],
     [deck |-> Str(<<"1">>), player |-> Num(2), target |-> 1],
     [deck |-> Str(<<"2">>), player |-> Num(3), target |-> 2],
     [deck |-> Str(<<"3">>), player |-> Num(4), target |-> 3],
     [deck |-> Num(4), player |-> Num(1), target |-> 4],
     [deck |-> Str(<<"B">>), player |-> Num(9), target |-> 2],
     [deck |-> Undefined, player |-> Num(1), target |-> 1],
     [deck |-> Undefined, player |-> Num(2), target |-> 2],
     [deck |-> Undefined, player |-> Str(<<"3">>), target |-> 3],
     [deck |-> Undefined, player |-> Num(4), target |-> 4],
     [deck |-> Str(<<>>), player |-> Num(2), target |-> 2],
     [deck |-> Num(0), player |-> Num(3), target |-> 3]}

\* Pairs that name no deck: an identifier outside the table, or none and a
\* player index that is absent, 0, not a number or outside 1..4.
DroppedCases ==
    {[deck |-> Str(<<"E">>), player |-> Num(2)],
     [deck |-> Str(<<"a">>), player |-> Num(1)],
     [deck |-> Num(5), player |-> Num(1)],
     [deck |-> Str(<<"A","B">>), player |-> Undefined],
     [deck |-> Undefined, player |-> Undefined],
     [deck |-> Undefined, player |-> Num(0)],
     [deck |-> Undefined, player |-> Num(5)],
     [deck |-> Undefined, player |-> Num(-1)],
     [deck |-> Undefined, player |-> Str(<<"x">>)],
     [deck |-> Null, player |-> Num(7)],
     [deck |-> Str(<<>>), player |-> Undefined]}

\* The status of a pair: it plays a track and names its device.
StatusOf(c) ==
    [NoStatus EXCEPT !.deck = c.deck, !.player = c.player, !.play = Bool(TRUE),
                     !.title = Str(<<"T">>), !.address = Str(<<"1","0",".","0",".","0",".","5">>),
                     !.source = Str(<<"S","C","6","0","0","0">>)]

\* The status of a pair that names no deck: it plays a track and names
\* another device.
StrayStatusOf(c) ==
    [NoStatus EXCEPT !.deck = c.deck, !.player = c.player, !.play = Bool(TRUE),
                     !.title = Str(<<"U">>), !.address = Str(<<"1","0",".","0",".","0",".","9">>),
                     !.source = Str(<<"X","1","8","5","0">>)]

\* The last step was the status of the pair c.
LastStatusOf(c) == LastStatus /\ last.input.status = StatusOf(c)

LastStrayStatusOf(c) == LastStatus /\ last.input.status = StrayStatusOf(c)

ResolveStatuses ==
    {StatusOf(c) : c \in ResolveCases} \cup {StrayStatusOf(c) : c \in DroppedCases}

NextResolve ==
    \/ Boot
    \/ PlayerStatus({"stateChanged"}, ResolveStatuses)

SpecResolve == InitLive /\ [][NextResolve]_vars

\* The manager as the server runs it: started in either mode, fed by the
\* library's events or the demo timer, stopped for a restart or a shutdown.
LiveMessages ==
    {ValueMessage(TrackPath(1, <<"S","a","m","p","l","e","R","a","t","e">>), Num(2)),
     ValueMessage(TrackPath(1, <<"T","r","a","c","k","L","e","n","g","t","h">>), Num(8)),
     ValueMessage(<<"/","M","i","x","e","r","/","C","H","1","f","a","d","e","r","P","o","s","i","t","i","o","n">>, Rat(1, 2))}

LiveStatuses ==
    {[NoStatus EXCEPT !.deck = Str(<<"A">>), !.title = Str(<<"S","o","n","g">>), !.play = Bool(TRUE),
                      !.hotcue = [@ EXCEPT ![1] = Obj(1)],
                      !.address = Str(<<"1","0",".","0",".","0",".","5">>), !.source = Str(<<"S","C","6","0","0","0">>)]}

LiveBeats ==
    {<<[beat |-> Num(1), totalBeats |-> Num(64), samples |-> Num(16)]>>}

Next ==
    \/ Boot
    \/ Message(LiveMessages)
    \/ PlayerStatus({"stateChanged"}, LiveStatuses)
    \/ BeatMessage(LiveBeats)
    \/ Ready
    \/ DemoTick({Num(128)}, {Rat(1, 2)}, {Rat(3, 4)})
    \/ CallStop({"live", "demo", "exit"})
    \/ StopResume
    \/ Continue

Spec == Init /\ [][Next]_vars

(***************************************************************************)
(* C1  Order independence of the sample rate.  Whenever a raw update (F,   *)
(* v) of a sample-domain field F has just been applied to a deck, applying *)
(* a sample rate that is stored as a positive rate r next leaves the same  *)
(* tree as applying the rate before the update and the update after it:    *)
(* in both, the raw field holds v's sample count and the seconds field     *)
(* holds that count divided by r.                                          *)
(***************************************************************************)
C1_OrderIndependence ==
    \A d \in DeckNumbers, key \in SampleKeys, v \in RawSamples, r \in SampleRates :
        /\ r.out.n > 0
        /\ \/ LastMessage(TrackPath(d, key), v.in)
           \/ LastMessage(EnginePath(d, key), v.in)
        => LET path == last.input.path
               ratePath == EnginePath(d, <<"S","a","m","p","l","e","R","a","t","e">>)
               rawFirst == _processRawStateChange(state, ratePath, r.in)
               rateFirst ==
                   _processRawStateChange(
                       _processRawStateChange(prev, ratePath, r.in), path, v.in)
           IN  /\ rawFirst = rateFirst
               /\ RawOf(rawFirst.decks[d], key) = v.out
               /\ SecondsFieldOf(rawFirst.decks[d], key) = Quotient(v.out, r.out)

\* A track length arrived while the rate was unknown, then the rate did.
C1_Witness ==
    /\ LastMessage(TrackPath(1, <<"S","a","m","p","l","e","R","a","t","e">>), Str(<<"4">>))
    /\ prev.decks[1].sampleRate = Num(0)
    /\ prev.decks[1].trackLengthRaw = Num(88200)
    /\ prev.decks[1].trackLength = Num(0)
    /\ state.decks[1].trackLength = Num(22050)

(***************************************************************************)
(* C2  Seconds follow the raw count.  In every state reached by raw        *)
(* updates, player statuses and resets, every deck whose sample rate is    *)
(* positive has each of its four seconds fields equal to its raw count     *)
(* divided by the sample rate.                                             *)
(***************************************************************************)
C2_SecondsFollowRaw ==
    \A d \in DeckNumbers, key \in SampleKeys :
        LET deck == state.decks[d]
        IN  deck.sampleRate.n > 0 =>
                SecondsFieldOf(deck, key) = Quotient(RawOf(deck, key), deck.sampleRate)

\* SampleRate 44100, then Track/CuePosition 88200: two seconds.
C2_Witness ==
    /\ LastMessage(TrackPath(2, <<"C","u","e","P","o","s","i","t","i","o","n">>), Num(88200))
    /\ prev.decks[2].sampleRate = Num(44100)
    /\ state.decks[2].cuePositionRaw = Num(88200)
    /\ state.decks[2].cuePosition = Num(2)

C4_TempoPathsApart ==
    \A N \in DeckNumbers, v \in BpmValues :
        /\ LastMessage(EnginePath(N, <<"T","r","a","c","k","/","C","u","r","r","e","n","t","B","P","M">>), v.in)
           => /\ state.decks[N].trackBPM = v.out
              /\ state.decks[N].currentBPM = prev.decks[N].currentBPM
        /\ LastMessage(EnginePath(N, <<"C","u","r","r","e","n","t","B","P","M">>), v.in)
           => /\ state.decks[N].currentBPM = v.out
              /\ state.decks[N].trackBPM = prev.decks[N].trackBPM

\* Deck 1 plays at 120.5 and the track's own tempo, 128, arrives.
C4_Witness ==
    /\ LastMessage(EnginePath(1, <<"T","r","a","c","k","/","C","u","r","r","e","n","t","B","P","M">>), Num(128))
    /\ prev.decks[1].currentBPM = Rat(241, 2)
    /\ prev.decks[1].trackBPM = Num(0)
    /\ state.decks[1].trackBPM = Num(128)
    /\ state.decks[1].currentBPM = Rat(241, 2)

(***************************************************************************)
(* The fields of a status that the merge copies when they are present:     *)
(* the status field, the deck field, and how the value is stored (text: a  *)
(* falsy value as the empty string; flag: its truthiness; asis: itself).   *)
(***************************************************************************)
MergeRows ==
    {[from |-> "title", to |-> "trackName", kind |-> "text"],
     [from |-> "title", to |-> "songName", kind |-> "text"],
     [from |-> "artist", to |-> "artistName", kind |-> "text"],
     [from |-> "songLoaded", to |-> "songLoaded", kind |-> "flag"],
     [from |-> "play", to |-> "play", kind |-> "flag"],
     [from |-> "playState", to |-> "playState", kind |-> "flag"],
     [from |-> "speed", to |-> "speed", kind |-> "asis"],
     [from |-> "syncMode", to |-> "syncMode", kind |-> "asis"],
     [from |-> "masterStatus", to |-> "deckIsMaster", kind |-> "flag"],
     [from |-> "masterTempo", to |-> "masterTempo", kind |-> "asis"],
     [from |-> "externalMixerVolume", to |-> "externalMixerVolume", kind |-> "asis"],
     [from |-> "trackNetworkPath", to |-> "trackNetworkPath", kind |-> "text"],
     [from |-> "trackPath", to |-> "trackPath", kind |-> "text"],
     [from |-> "dbSourceName", to |-> "dbSourceName", kind |-> "text"],
     [from |-> "jogColor", to |-> "jogColor", kind |-> "asis"]}

Stored(kind, v) ==
    CASE kind = "text" -> IF v.truthy THEN v.in ELSE Str(<<>>)
      [] kind = "flag" -> v.truthy
      [] kind = "asis" -> v.in

\* A present field of the status s overwrites its deck field, an absent one
\* leaves it, for every row of the table.
RowsMerged(s) ==
    \A row \in MergeRows :
        IF s[row.from] = Undefined
        THEN state.decks[1][row.to] = prev.decks[1][row.to]
        ELSE \E v \in MergeValues :
                /\ v.in = s[row.from]
                /\ state.decks[1][row.to] = Stored(row.kind, v)

(***************************************************************************)
(* C5  As the claim reads: a status for deck A overwrites each deck field  *)
(* of the table if and only if its status field is present, falsy values   *)
(* included; and without a trackPath, fileLocation overwrites trackUri if  *)
(* and only if it is present, falsy values included.                       *)
(***************************************************************************)
C5_PresenceBased ==
    LastStatus /\ last.input.status.deck = Str(<<"A">>) =>
        LET s == last.input.status
        IN  /\ RowsMerged(s)
            /\ s.trackPath = Undefined =>
                 IF s.fileLocation = Undefined
                 THEN state.decks[1].trackUri = prev.decks[1].trackUri
                 ELSE \E v \in MergeValues :
                        /\ v.in = s.fileLocation
                        /\ state.decks[1].trackUri \in {v.in, Stored("text", v)}

(***************************************************************************)
(* C5  As the code has it: a status for deck A overwrites each deck field  *)
(* of the table if and only if its status field is present, falsy values   *)
(* included; without a trackPath, fileLocation overwrites trackUri if and  *)
(* only if it is truthy, and a fileLocation that is absent or falsy leaves *)
(* trackUri as it was.                                                     *)
(***************************************************************************)
C5_PresenceBasedButFileLocation ==
    LastStatus /\ last.input.status.deck = Str(<<"A">>) =>
        LET s == last.input.status
        IN  /\ RowsMerged(s)
            /\ s.trackPath = Undefined =>
                 IF \E v \in MergeValues : v.in = s.fileLocation /\ v.truthy
                 THEN state.decks[1].trackUri = s.fileLocation
                 ELSE state.decks[1].trackUri = prev.decks[1].trackUri

\* { deck: 'A', play: false } on a deck that plays.
C5_Witness ==
    /\ LastStatus
    /\ last.input.status = [NoStatus EXCEPT !.deck = Str(<<"A">>), !.play = Bool(FALSE)]
    /\ prev.decks[1].play
    /\ ~state.decks[1].play
    /\ prev.decks[1].trackName = Str(<<"x">>)
    /\ state.decks[1].trackName = Str(<<"x">>)

(***************************************************************************)
(* C6  The tempo guard of the status merge.  A status whose trackBpm       *)
(* (currentBpm) is absent, zero or negative leaves every deck's trackBPM   *)
(* (currentBPM) as it was; one above zero is stored on one deck and leaves *)
(* the other decks' as they were.  So over status updates a trackBPM or    *)
(* currentBPM that is above zero stays above zero.                         *)
(***************************************************************************)
C6_TempoGuard ==
    last.kind \in {"trackLoaded", "nowPlaying", "stateChanged"} /\ last.input.hasStatus =>
        LET s == last.input.status
            Positive(x) == \E c \in BpmCases : c.in = x /\ c.positive
            Guarded(bpm, field) ==
                /\ ~Positive(bpm) => \A d \in DeckNumbers :
                        state.decks[d][field] = prev.decks[d][field]
                /\ Positive(bpm) => \E d \in DeckNumbers :
                        /\ state.decks[d][field] = bpm
                        /\ \A e \in DeckNumbers \ {d} :
                                state.decks[e][field] = prev.decks[e][field]
                /\ \A d \in DeckNumbers :
                        Positive(prev.decks[d][field]) =>
                            /\ Positive(state.decks[d][field])
                            /\ state.decks[d][field] # Num(0)
        IN  /\ Guarded(s.trackBpm, "trackBPM")
            /\ Guarded(s.currentBpm, "currentBPM")

\* trackBPM is 128 and a status with trackBpm: 0 arrives.
C6_Witness ==
    /\ LastStatus
    /\ last.input.status = [NoStatus EXCEPT !.deck = Str(<<"A">>), !.trackBpm = Num(0)]
    /\ prev.decks[1].trackBPM = Num(128)
    /\ state.decks[1].trackBPM = Num(128)

(***************************************************************************)
(* C7  As the claim reads: a status with a trackPath and a fileLocation,   *)
(* both non-empty and different, leaves trackUri equal to the trackPath;   *)
(* a fileLocation sets trackUri only in a status without a trackPath.      *)
(***************************************************************************)
C7_TrackPathFirst ==
    LastStatus /\ last.input.status.deck = Str(<<"A">>) =>
        LET s == last.input.status
            uri == state.decks[1].trackUri
        IN  /\ Len(s.trackPath.s) > 0 /\ Len(s.fileLocation.s) > 0
                    /\ s.trackPath # s.fileLocation
               => uri = s.trackPath
            /\ s.trackPath # Undefined /\ Len(s.fileLocation.s) > 0
                    /\ s.fileLocation # s.trackPath
               => uri # s.fileLocation

(***************************************************************************)
(* C7  As the code has it: a status with a trackPath and a fileLocation,   *)
(* both non-empty and different, leaves trackUri equal to the fileLocation *)
(* and the deck's trackPath equal to the trackPath; a non-empty            *)
(* fileLocation sets trackUri with or without a trackPath, and a trackPath *)
(* sets trackUri only in a status whose fileLocation is absent or empty.   *)
(***************************************************************************)
C7_FileLocationFirst ==
    LastStatus /\ last.input.status.deck = Str(<<"A">>) =>
        LET s == last.input.status
            uri == state.decks[1].trackUri
        IN  /\ Len(s.fileLocation.s) > 0 => uri = s.fileLocation
            /\ Len(s.fileLocation.s) = 0 /\ s.trackPath # Undefined => uri = s.trackPath
            /\ Len(s.fileLocation.s) = 0 /\ s.trackPath = Undefined
               => uri = prev.decks[1].trackUri
            /\ s.trackPath # Undefined => state.decks[1].trackPath = s.trackPath

\* A status with both, on a deck that showed another track.
C7_Witness ==
    /\ LastStatus
    /\ last.input.status.trackPath = Str(<<"/","m","u","s","i","c","/","a",".","m","p","3">>)
    /\ last.input.status.fileLocation = Str(<<"n","e","t",":","/","/","a">>)
    /\ prev.decks[1].trackUri = Str(<<"n","e","t",":","/","/","b">>)
    /\ state.decks[1].trackUri = Str(<<"n","e","t",":","/","/","a">>)
    /\ state.decks[1].trackPath = Str(<<"/","m","u","s","i","c","/","a",".","m","p","3">>)

(***************************************************************************)
(* C8  The deck identifier comes first.  A status with a deck identifier   *)
(* (A, B, C, D, 1, 2, 3, 4) and a player index is merged into the deck of  *)
(* the identifier, whatever the player index, and a status without an      *)
(* identifier into the deck of its player index 1..4; every other deck is  *)
(* as before.                                                              *)
(***************************************************************************)
C8_DeckIdentifierFirst ==
    \A c \in ResolveCases :
        LastStatusOf(c) =>
            /\ state.decks[c.target].play
            /\ state.decks[c.target].trackName = Str(<<"T">>)
            /\ \A e \in DeckNumbers \ {c.target} : state.decks[e] = prev.decks[e]

\* { deck: 'B', player: 3, play: true }: deck 2 plays, deck 3 does not.
C8_Witness ==
    /\ LastStatusOf([deck |-> Str(<<"B">>), player |-> Num(3)])
    /\ ~prev.decks[2].play
    /\ state.decks[2].play
    /\ ~state.decks[3].play

C10_FullReset ==
    /\ last.kind = "stop" =>
            /\ state = _createEmptyState
            /\ \A d \in DeckNumbers : state.decks[d] = emptyDeck /\ ~state.decks[d].hotcues.has
            /\ "stateUpdate" = last.emits[Len(last.emits)]
    /\ last.kind = "stopAwait" => state = prev

\* stop() ends after a status with a hotcue, a track length and a beat.
C10_Witness ==
    /\ last.kind = "stop"
    /\ prev.decks[1].hotcues.has
    /\ prev.decks[1].trackLengthRaw = Num(8)
    /\ prev.decks[1].beatPosition = Num(1)
    /\ prev.device.ip = Str(<<"1","0",".","0",".","0",".","5">>)
    /\ state = _createEmptyState

(***************************************************************************)
(* A device connects, its decks are filled, and the client asks to         *)
(* disconnect it.                                                          *)
(***************************************************************************)
DeviceInfos ==
    {[address |-> Str(<<"1","0",".","0",".","0",".","5">>), source |-> Str(<<"S","C","6","0","0","0">>),
      softwareName |-> Str(<<"J","P","1","4">>), softwareVersion |-> Str(<<"3",".","4",".","0">>),
      port |-> Num(50010)]}

DisconnectMessages ==
    {ValueMessage(TrackPath(1, <<"S","a","m","p","l","e","R","a","t","e">>), Num(2)),
     ValueMessage(TrackPath(1, <<"T","r","a","c","k","L","e","n","g","t","h">>), Num(8)),
     ValueMessage(TrackPath(2, <<"S","o","n","g","N","a","m","e">>), Str(<<"O","p","u","s">>))}

\* Status updates with and without the device's identity: the status, and
\* the address and the name it gives the device, if any.
IdentityCases ==
    {[status |-> [NoStatus EXCEPT !.deck = Str(<<"B">>), !.address = Str(<<"1","0",".","0",".","0",".","7">>),
                                  !.source = Str(<<"P","r","i","m","e","4">>)],
      hasIp |-> TRUE, ip |-> Str(<<"1","0",".","0",".","0",".","7">>), hasName |-> TRUE, name |-> Str(<<"P","r","i","m","e","4">>)],
     [status |-> [NoStatus EXCEPT !.deck = Str(<<"B">>), !.address = Str(<<"1","0",".","0",".","0",".","5">>)],
      hasIp |-> TRUE, ip |-> Str(<<"1","0",".","0",".","0",".","5">>), hasName |-> FALSE, name |-> Str(<<>>)],
     [status |-> [NoStatus EXCEPT !.player = Num(2), !.source = Str(<<"G","O">>)],
      hasIp |-> FALSE, ip |-> Str(<<>>), hasName |-> TRUE, name |-> Str(<<"G","O">>)],
     [status |-> [NoStatus EXCEPT !.deck = Str(<<"B">>), !.address = Str(<<>>),
                                  !.source = Null],
      hasIp |-> FALSE, ip |-> Str(<<>>), hasName |-> FALSE, name |-> Str(<<>>)],
     [status |-> [NoStatus EXCEPT !.deck = Str(<<"Z">>), !.address = Str(<<"1","0",".","0",".","0",".","9">>),
                                  !.source = Str(<<"X","1","8","5","0">>)],
      hasIp |-> FALSE, ip |-> Str(<<>>), hasName |-> FALSE, name |-> Str(<<>>)]}

DisconnectStatuses ==
    {[NoStatus EXCEPT !.deck = Str(<<"A">>), !.title = Str(<<"S","o","n","g">>), !.play = Bool(TRUE)]}
    \cup {c.status : c \in IdentityCases}

DisconnectIps == {Str(<<"1","0",".","0",".","0",".","5">>), Str(<<"1","0",".","0",".","0",".","9">>)}

NextDisconnect ==
    \/ Boot
    \/ Connected(DeviceInfos)
    \/ Message(DisconnectMessages)
    \/ PlayerStatus({"stateChanged"}, DisconnectStatuses)
    \/ DisconnectDevice(DisconnectIps)

SpecDisconnect == InitLive /\ [][NextDisconnect]_vars

(***************************************************************************)
(* Key indexes: a value and, where the value is an index of KEY_MAP, the   *)
(* index.                                                                  *)
(***************************************************************************)
KeyCases ==
    {[value |-> Num(0), inMap |-> TRUE, k |-> 0],
     [value |-> Num(7), inMap |-> TRUE, k |-> 7],
     [value |-> Num(23), inMap |-> TRUE, k |-> 23],
     [value |-> Str(<<"1","4">>), inMap |-> TRUE, k |-> 14],
     [value |-> Num(24), inMap |-> FALSE, k |-> 24],
     [value |-> Num(-1), inMap |-> FALSE, k |-> -1],
     [value |-> Num(100), inMap |-> FALSE, k |-> 100],
     [value |-> Str(<<"a","b","c">>), inMap |-> FALSE, k |-> 0],
     [value |-> Null, inMap |-> FALSE, k |-> 0]}

KeyDecks == {1, 4}

KeyMessages ==
    {ValueMessage(EnginePath(d, <<"C","u","r","r","e","n","t","K","e","y","I","n","d","e","x">>), c.value) : d \in KeyDecks, c \in KeyCases}

NextKey ==
    \/ Boot
    \/ Message(KeyMessages)

SpecKey == InitLive /\ [][NextKey]_vars

(***************************************************************************)
(* Deck numbers that are not tracked.  A value comes with the deck count   *)
(* and the fader position it stands for.                                   *)
(***************************************************************************)
UnknownDecks == {0, 5, 9}

PlainRests == {<<"P","l","a","y">>, <<"T","r","a","c","k","/","S","o","n","g","N","a","m","e">>}

CountRest == <<"D","e","c","k","C","o","u","n","t">>

MixerRest == <<"a","/","M","i","x","e","r","/","C","H","1","f","a","d","e","r","P","o","s","i","t","i","o","n">>

UnknownRests == PlainRests \cup {CountRest, MixerRest}

UnknownValues ==
    {[value |-> Num(3), count |-> Num(3), fader |-> Num(3)],
     [value |-> Str(<<"S","o","n","g">>), count |-> Num(2), fader |-> Num(0)]}

UnknownMessages ==
    {ValueMessage(EnginePath(n, rest), v.value) :
        n \in UnknownDecks, rest \in UnknownRests, v \in UnknownValues}
    \cup {ValueMessage(ClientPath(n, rest), v.value) :
        n \in UnknownDecks, rest \in UnknownRests, v \in UnknownValues}

TrackedMessages ==
    {ValueMessage(EnginePath(1, <<"P","l","a","y">>), Bool(TRUE)),
     ValueMessage(ClientPath(4, <<"D","e","c","k","I","s","M","a","s","t","e","r">>), Bool(TRUE))}

NextUnknown ==
    \/ Boot
    \/ Message(UnknownMessages \cup TrackedMessages)

SpecUnknown == InitLive /\ [][NextUnknown]_vars

(***************************************************************************)
(* Paths that none of the dispatcher's patterns matches.                   *)
(***************************************************************************)
UnmatchedPaths ==
    {<<"/","E","n","g","i","n","e","/","D","e","c","k","A","/","P","l","a","y">>,
     <<"/","E","n","g","i","n","e","/","D","e","c","k","1","2","/","P","l","a","y">>,
     <<"/","E","n","g","i","n","e","/","D","e","c","k","1">>,
     <<"/","E","n","g","i","n","e","/","M","a","s","t","e","r","/","M","a","s","t","e","r","T","e","m","p","o">>,
     <<"/","M","i","x","e","r">>,
     <<"/","m","i","x","e","r","/","C","H","1","f","a","d","e","r","P","o","s","i","t","i","o","n">>,
     <<"/","C","l","i","e","n","t","/","P","r","e","f","e","r","e","n","c","e","s","/","P","l","a","y","e","r">>,
     <<"/","c","l","i","e","n","t","/","d","e","c","k","1","/","P","l","a","y">>,
     <<"/","C","l","i","e","n","t","/","L","i","b","r","a","r","i","a","n","/","D","e","v","i","c","e","s","C","o","n","t","r","o","l","l","e","r","/","H","a","s","S","D","C","a","r","d","C","o","n","n","e","c","t","e","d","/">>,
     <<"/","G","U","I","/","D","e","c","k","s","/","D","e","c","k","/","A","c","t","i","v","e","D","e","c","k","2">>}

UnmatchedValues == {Bool(TRUE), Num(3), Str(<<"D","e","c","k","2">>)}

UnmatchedMessages ==
    {ValueMessage(path, v) : path \in UnmatchedPaths, v \in UnmatchedValues}

MatchedMessages ==
    {ValueMessage(EnginePath(1, <<"P","l","a","y">>), Bool(TRUE)),
     ValueMessage(<<"/","M","i","x","e","r","/","C","H","1","f","a","d","e","r","P","o","s","i","t","i","o","n">>, Num(3)),
     ValueMessage(<<"/","G","U","I","/","D","e","c","k","s","/","D","e","c","k","/","A","c","t","i","v","e","D","e","c","k">>, Str(<<"D","e","c","k","2">>))}

NextUnmatched ==
    \/ Boot
    \/ Message(UnmatchedMessages \cup MatchedMessages)

SpecUnmatched == InitLive /\ [][NextUnmatched]_vars

(***************************************************************************)
(* Field names the deck reducer does not know.  A value comes with the     *)
(* text and the deck count it stands for.                                  *)
(***************************************************************************)
FieldDecks == {1, 3}

EngineNoOpRests ==
    {<<"F","o","o">>, <<"p","l","a","y">>, <<"S","o","n","g","N","a","m","e","/">>, <<"T","r","a","c","k","/","F","o","o">>, <<"T","r","a","c","k","/","T","r","a","c","k","/","S","o","n","g","N","a","m","e">>}

\* Not a field name, and not 'Track/' followed by one.
EngineStrayRest == <<"S","o","n","g","T","r","a","c","k","/","N","a","m","e">>

ClientNoOpRests ==
    {<<"F","o","o">>, <<"p","l","a","y">>, <<"S","o","n","g","N","a","m","e","/">>, <<"T","r","a","c","k","/","F","o","o">>, <<"S","o","n","g","T","r","a","c","k","/","N","a","m","e">>}

ClientCountRest == <<"F","o","o","D","e","c","k","C","o","u","n","t">>

FieldValues ==
    {[value |-> Str(<<"O","p","u","s">>), text |-> Str(<<"O","p","u","s">>), count |-> Num(2)],
     [value |-> Num(3), text |-> Str(<<"3">>), count |-> Num(3)]}

FieldMessages ==
    {ValueMessage(EnginePath(d, rest), v.value) :
        d \in FieldDecks, rest \in EngineNoOpRests \cup {EngineStrayRest}, v \in FieldValues}
    \cup {ValueMessage(ClientPath(d, rest), v.value) :
        d \in FieldDecks, rest \in ClientNoOpRests \cup {ClientCountRest}, v \in FieldValues}
    \cup {ValueMessage(EnginePath(1, <<"P","l","a","y">>), Bool(TRUE)),
          ValueMessage(TrackPath(3, <<"S","o","n","g","N","a","m","e">>), Str(<<"S","o","n","g">>)),
          ValueMessage(ClientPath(3, <<"D","e","c","k","I","s","M","a","s","t","e","r">>), Bool(TRUE))}

NextField ==
    \/ Boot
    \/ Message(FieldMessages)

SpecField == InitLive /\ [][NextField]_vars

(***************************************************************************)
(* Engine fields with and without 'Track/' before them, and two names      *)
(* with 'Track/' at a later place.                                         *)
(***************************************************************************)
TrackDecks == {2}

TrackFields ==
    {<<"S","o","n","g","N","a","m","e">>, <<"T","r","a","c","k","L","e","n","g","t","h">>, <<"S","a","m","p","l","e","R","a","t","e">>, <<"P","l","a","y">>, <<"T","r","a","c","k","B","P","M">>, <<"C","u","r","r","e","n","t","K","e","y","I","n","d","e","x">>}

LaterTrackRest == <<"S","o","n","g","T","r","a","c","k","/","N","a","m","e">>

TwiceTrackRest == <<"T","r","a","c","k","/","T","r","a","c","k","/","S","o","n","g","N","a","m","e">>

TrackValues ==
    {[value |-> Str(<<"O","p","u","s">>), text |-> Str(<<"O","p","u","s">>)],
     [value |-> Num(3), text |-> Str(<<"3">>)]}

TrackMessages ==
    {ValueMessage(EnginePath(N, X), v.value) :
        N \in TrackDecks, X \in TrackFields, v \in TrackValues}
    \cup {ValueMessage(TrackPath(N, X), v.value) :
        N \in TrackDecks, X \in TrackFields, v \in TrackValues}
    \cup {ValueMessage(EnginePath(N, rest), v.value) :
        N \in TrackDecks, rest \in {LaterTrackRest, TwiceTrackRest}, v \in TrackValues}

NextTrack ==
    \/ Boot
    \/ Message(TrackMessages)

SpecTrack == InitLive /\ [][NextTrack]_vars

(***************************************************************************)
(* Client paths, with and without 'Track/' before the field.  A value      *)
(* comes with the text, the number and the flag it stands for.             *)
(***************************************************************************)
ClientDecks == {1, 4}

ClientFields == {<<"S","o","n","g","N","a","m","e">>, <<"C","u","r","r","e","n","t","B","P","M">>, <<"D","e","c","k","I","s","M","a","s","t","e","r">>}

ClientValues ==
    {[value |-> Str(<<"O","p","u","s">>), text |-> Str(<<"O","p","u","s">>), number |-> Num(0), flag |-> TRUE],
     [value |-> Num(3), text |-> Str(<<"3">>), number |-> Num(3), flag |-> TRUE],
     [value |-> Num(0), text |-> Str(<<>>), number |-> Num(0), flag |-> FALSE]}

ClientMessages ==
    {ValueMessage(ClientPath(N, X), v.value) :
        N \in ClientDecks, X \in ClientFields, v \in ClientValues}
    \cup {ValueMessage(ClientPath(N, <<"T","r","a","c","k","/">> \o X), v.value) :
        N \in ClientDecks, X \in ClientFields, v \in ClientValues}

NextClient ==
    \/ Boot
    \/ Message(ClientMessages)

SpecClient == InitLive /\ [][NextClient]_vars

(***************************************************************************)
(* Values of the GUI's active deck, with the deck number they stand for.   *)
(***************************************************************************)
ActiveDeckPath == <<"/","G","U","I","/","D","e","c","k","s","/","D","e","c","k","/","A","c","t","i","v","e","D","e","c","k">>

ActiveDeckCases ==
    {[value |-> Num(2), deck |-> Num(2)],
     [value |-> Num(4), deck |-> Num(4)],
     [value |-> Num(-3), deck |-> Num(-3)],
     [value |-> Str(<<"D","e","c","k","3">>), deck |-> Num(3)],
     [value |-> Str(<<"D","e","c","k","1","2">>), deck |-> Num(12)],
     [value |-> Str(<<"g","a","r","b","a","g","e">>), deck |-> Num(1)],
     [value |-> Str(<<"D","e","c","k","A">>), deck |-> Num(1)],
     [value |-> Str(<<"D","e","c","k","0">>), deck |-> Num(1)],
     [value |-> Num(0), deck |-> Num(1)],
     [value |-> Null, deck |-> Num(1)]}

ActiveDeckMessages ==
    {ValueMessage(ActiveDeckPath, c.value) : c \in ActiveDeckCases}
    \cup {ValueMessage(EnginePath(1, <<"P","l","a","y">>), Bool(TRUE)),
          ValueMessage(<<"/","M","i","x","e","r","/","C","H","1","f","a","d","e","r","P","o","s","i","t","i","o","n">>, Num(3)),
          ValueMessage(<<"/","C","l","i","e","n","t","/","P","r","e","f","e","r","e","n","c","e","s","/","D","e","c","k","C","o","u","n","t">>, Num(4))}

NextActiveDeck ==
    \/ Boot
    \/ Message(ActiveDeckMessages)

SpecActiveDeck == InitLive /\ [][NextActiveDeck]_vars

(***************************************************************************)
(* Status updates with a title: the status, the deck it resolves to, and   *)
(* the texts and the flag the deck shows afterwards.                       *)
(***************************************************************************)
TitleCases ==
    {[status |-> [NoStatus EXCEPT !.player = Num(3), !.title = Str(<<"S","t","r","o","b","e">>),
                                  !.artist = Str(<<"d","e","a","d","m","a","u","5">>), !.songLoaded = Bool(TRUE)],
      N |-> 3, title |-> Str(<<"S","t","r","o","b","e">>), artist |-> Str(<<"d","e","a","d","m","a","u","5">>), loaded |-> TRUE],
     [status |-> [NoStatus EXCEPT !.player = Num(3), !.title = Null,
                                  !.artist = Null, !.songLoaded = Bool(FALSE)],
      N |-> 3, title |-> Str(<<>>), artist |-> Str(<<>>), loaded |-> FALSE],
     [status |-> [NoStatus EXCEPT !.deck = Str(<<"A">>), !.title = Str(<<>>),
                                  !.artist = Str(<<"O","p","u","s"," ","I","I","I">>), !.songLoaded = Num(1)],
      N |-> 1, title |-> Str(<<>>), artist |-> Str(<<"O","p","u","s"," ","I","I","I">>), loaded |-> TRUE],
     [status |-> [NoStatus EXCEPT !.deck = Str(<<"A">>), !.title = Str(<<"S","o","n","g">>),
                                  !.artist = Str(<<>>), !.songLoaded = Bool(TRUE)],
      N |-> 1, title |-> Str(<<"S","o","n","g">>), artist |-> Str(<<>>), loaded |-> TRUE]}

\* Statuses without a title: an artist alone, and nothing at all.
UntitledStatuses ==
    {[NoStatus EXCEPT !.player = Num(3), !.artist = Str(<<"K","a","s","k","a","d","e">>)], NoStatus}

TitleStatuses == {c.status : c \in TitleCases} \cup UntitledStatuses

TitleEvents == {"trackLoaded", "nowPlaying", "stateChanged"}

NextTitle ==
    \/ Boot
    \/ PlayerStatus(TitleEvents, TitleStatuses)

SpecTitle == InitLive /\ [][NextTitle]_vars

(***************************************************************************)
(* Mixer updates: the keys with their fields, and values with the number   *)
(* they stand for.                                                         *)
(***************************************************************************)
MixerRows ==
    {[key |-> <<"C","H","1","f","a","d","e","r","P","o","s","i","t","i","o","n">>, field |-> "ch1Fader"],
     [key |-> <<"C","H","2","f","a","d","e","r","P","o","s","i","t","i","o","n">>, field |-> "ch2Fader"],
     [key |-> <<"C","H","3","f","a","d","e","r","P","o","s","i","t","i","o","n">>, field |-> "ch3Fader"],
     [key |-> <<"C","H","4","f","a","d","e","r","P","o","s","i","t","i","o","n">>, field |-> "ch4Fader"],
     [key |-> <<"C","r","o","s","s","f","a","d","e","r","P","o","s","i","t","i","o","n">>, field |-> "crossfader"]}

OtherMixerKeys == {<<"F","o","o">>, <<"D","e","c","k","C","o","u","n","t">>}

MixerValues ==
    {[value |-> Rat(1, 2), number |-> Rat(1, 2)],
     [value |-> Str(<<"0",".","7","5">>), number |-> Rat(3, 4)],
     [value |-> Str(<<"a","b","c">>), number |-> Num(0)],
     [value |-> Num(2), number |-> Num(2)]}

MixerPath(key) == <<"/","M","i","x","e","r","/">> \o key

MixerMessages ==
    {ValueMessage(MixerPath(key), v.value) :
        key \in {r.key : r \in MixerRows} \cup OtherMixerKeys, v \in MixerValues}
    \cup {ValueMessage(EnginePath(1, <<"P","l","a","y">>), Bool(TRUE))}

NextMixer ==
    \/ Boot
    \/ Message(MixerMessages)

SpecMixer == InitLive /\ [][NextMixer]_vars

(***************************************************************************)
(* The two channels on deck 1: raw updates and status updates that carry   *)
(* play and songLoaded, with updates that change nothing or are dropped.   *)
(***************************************************************************)
ChannelMessages ==
    {ValueMessage(EnginePath(1, <<"P","l","a","y">>), Bool(TRUE)),
     ValueMessage(EnginePath(1, <<"P","l","a","y">>), Num(0)),
     ValueMessage(EnginePath(1, <<"S","o","n","g","L","o","a","d","e","d">>), Str(<<"y","e","s">>)),
     ValueMessage(EnginePath(1, <<"S","o","n","g","L","o","a","d","e","d">>), Bool(FALSE)),
     ValueMessage(EnginePath(7, <<"P","l","a","y">>), Bool(TRUE)),
     ValueMessage(<<"/","F","o","o","/","B","a","r">>, Num(3)),
     ValueMessage(<<>>, Num(3))}

ChannelStatuses ==
    {[NoStatus EXCEPT !.deck = Str(<<"A">>), !.play = Bool(FALSE)],
     [NoStatus EXCEPT !.deck = Str(<<"A">>), !.play = Num(1), !.songLoaded = Bool(TRUE)],
     [NoStatus EXCEPT !.deck = Str(<<"A">>), !.songLoaded = Num(0)],
     [NoStatus EXCEPT !.deck = Str(<<"A">>), !.title = Str(<<"S","o","n","g">>)],
     [NoStatus EXCEPT !.deck = Str(<<"Z">>), !.play = Bool(TRUE)],
     NoStatus}

ChannelEvents == {"trackLoaded", "nowPlaying", "stateChanged"}

NextChannels ==
    \/ Boot
    \/ Message(ChannelMessages)
    \/ PlayerStatus(ChannelEvents, ChannelStatuses)

SpecChannels == InitLive /\ [][NextChannels]_vars

(***************************************************************************)
(* Status updates with hotcues: the status, the deck it resolves to, and   *)
(* the (index, descriptor) pairs it stores.                                *)
(***************************************************************************)
HotcueCases ==
    {[status |-> [NoStatus EXCEPT !.deck = Str(<<"A">>),
                                  !.hotcue = [@ EXCEPT ![1] = Obj(1)]],
      N |-> 1, cues |-> {<<1, Obj(1)>>}],
     [status |-> [NoStatus EXCEPT !.deck = Str(<<"A">>),
                                  !.hotcue = [@ EXCEPT ![1] = Obj(2), ![8] = Obj(3)]],
      N |-> 1, cues |-> {<<1, Obj(2)>>, <<8, Obj(3)>>}],
     [status |-> [NoStatus EXCEPT !.deck = Str(<<"A">>),
                                  !.hotcue = [@ EXCEPT ![1] = Null, ![5] = Obj(4)]],
      N |-> 1, cues |-> {<<5, Obj(4)>>}],
     [status |-> [NoStatus EXCEPT !.deck = Str(<<"A">>), !.play = Bool(TRUE)],
      N |-> 1, cues |-> {}],
     [status |-> [NoStatus EXCEPT !.player = Num(2),
                                  !.hotcue = [@ EXCEPT ![3] = Obj(5)]],
      N |-> 2, cues |-> {<<3, Obj(5)>>}]}

HotcueStatuses == {c.status : c \in HotcueCases}

NextHotcue ==
    \/ Boot
    \/ PlayerStatus({"stateChanged"}, HotcueStatuses)

SpecHotcue == InitLive /\ [][NextHotcue]_vars

(***************************************************************************)
(* Deck counts: paths that contain DeckCount, and values with the count    *)
(* they stand for.                                                         *)
(***************************************************************************)
DeckCountPaths ==
    {<<"/","C","l","i","e","n","t","/","P","r","e","f","e","r","e","n","c","e","s","/","D","e","c","k","C","o","u","n","t">>, <<"/","D","e","c","k","C","o","u","n","t">>, <<"/","E","n","g","i","n","e","/","D","e","c","k","C","o","u","n","t","/","V","a","l","u","e">>}

\* An engine deck path and a mixer path that contain DeckCount.
EarlierDeckCountPaths == {<<"/","E","n","g","i","n","e","/","D","e","c","k","1","/","D","e","c","k","C","o","u","n","t">>, <<"/","M","i","x","e","r","/","D","e","c","k","C","o","u","n","t">>}

DeckCountValues ==
    {[value |-> Num(4), count |-> Num(4)],
     [value |-> Str(<<"3">>), count |-> Num(3)],
     [value |-> Rat(7, 2), count |-> Num(3)],
     [value |-> Num(-1), count |-> Num(-1)],
     [value |-> Num(0), count |-> Num(2)],
     [value |-> Str(<<"a","b","c">>), count |-> Num(2)],
     [value |-> Null, count |-> Num(2)]}

DeckCountMessages ==
    {ValueMessage(path, v.value) :
        path \in DeckCountPaths \cup EarlierDeckCountPaths, v \in DeckCountValues}

NextDeckCount ==
    \/ Boot
    \/ Message(DeckCountMessages)

SpecDeckCount == InitLive /\ [][NextDeckCount]_vars

(***************************************************************************)
(* Positions: values of PlayStatePath with the number they stand for and   *)
(* how the claim reads them.                                               *)
(***************************************************************************)
PositionValues ==
    {[value |-> Rat(1, 2), number |-> Rat(1, 2), kind |-> "fraction"],
     [value |-> Str(<<"0",".","2","5">>), number |-> Rat(1, 4), kind |-> "fraction"],
     [value |-> Num(1), number |-> Num(1), kind |-> "fraction"],
     [value |-> Num(0), number |-> Num(0), kind |-> "fraction"],
     [value |-> Num(3), number |-> Num(3), kind |-> "samples"],
     [value |-> Num(-1), number |-> Num(-1), kind |-> "negative"]}

PositionPath == EnginePath(1, <<"P","l","a","y","S","t","a","t","e","P","a","t","h">>)

PositionMessages ==
    {ValueMessage(PositionPath, v.value) : v \in PositionValues}
    \cup {ValueMessage(TrackPath(1, <<"S","a","m","p","l","e","R","a","t","e">>), Num(2)),
          ValueMessage(TrackPath(1, <<"S","a","m","p","l","e","R","a","t","e">>), Num(0)),
          ValueMessage(TrackPath(1, <<"T","r","a","c","k","L","e","n","g","t","h">>), Num(8))}

NextPosition ==
    \/ Boot
    \/ Message(PositionMessages)

SpecPosition == InitLive /\ [][NextPosition]_vars

\* The last step was disconnectDevice(ip) for the device the tree names.
LastDisconnectOfConnected ==
    /\ last.kind = "disconnect"
    /\ prev.device.ip = last.input.value
    /\ prev.device.connectionState = "connected"

(***************************************************************************)
(* C11  As the claim reads: after disconnectDevice(ip) for the connected   *)
(* device every deck equals the empty deck, so no deck field set before    *)
(* the disconnect survives it.                                             *)
(***************************************************************************)
C11_DisconnectResets ==
    LastDisconnectOfConnected => \A d \in DeckNumbers : state.decks[d] = emptyDeck

(***************************************************************************)
(* C11  As the code has it: disconnectDevice(ip) for the connected device  *)
(* keeps the tree; it sets device.connectionState to 'disconnected' and    *)
(* clears the connected flag and address, and every deck, the mixer and    *)
(* the other device fields are as before.  It emits deviceDisconnected and *)
(* stateUpdate.                                                            *)
(***************************************************************************)
C11_DisconnectKeepsDecks ==
    LastDisconnectOfConnected =>
        /\ state = [prev EXCEPT !.device.connectionState = "disconnected"]
        /\ \A d \in DeckNumbers : state.decks[d] = prev.decks[d]
        /\ ~connected
        /\ _connectedIp = Null
        /\ last.emits = <<"deviceDisconnected", "stateUpdate">>

\* The device is disconnected while deck 1 holds a track.
C11_Witness ==
    /\ LastDisconnectOfConnected
    /\ prev.decks[1].trackName = Str(<<"S","o","n","g">>)
    /\ prev.decks[1].trackLengthRaw = Num(8)
    /\ state.decks[1].trackName = Str(<<"S","o","n","g">>)
    /\ state.decks[1].trackLengthRaw = Num(8)
    /\ state.device.connectionState = "disconnected"

\* The fields of a deck by the type of their default (_createEmptyState).
DeckBooleanFields ==
    {"songLoaded", "songAnalyzed", "play", "playState", "deckIsMaster", "keyLock",
     "externalScratchWheelTouch", "loopEnableState"}

DeckStringFields ==
    {"trackName", "artistName", "songName", "trackUri", "trackNetworkPath",
     "currentKey", "dbSourceName", "trackPath"}

DeckNumericFields ==
    {"trackLength", "sampleRate", "currentPosition", "currentBPM", "trackBPM",
     "speed", "speedRange", "syncMode", "masterTempo", "currentKeyIndex",
     "externalMixerVolume", "cuePosition", "cuePositionRaw",
     "currentLoopInPosition", "currentLoopOutPosition", "currentLoopSizeInBeats",
     "trackLengthRaw", "loopInRaw", "loopOutRaw", "beatPosition", "totalBeats"}

\* The tree is new: nothing ran yet, or stop() has just recreated it.
FreshTree == last.kind \in {"init", "stop"}

(***************************************************************************)
(* C12  As the claim reads: in the initial state and after every reset,    *)
(* each of the four decks has every boolean field false, every numeric     *)
(* field 0 and every string field ''.                                      *)
(***************************************************************************)
C12_AllNumericZero ==
    FreshTree =>
        \A d \in DeckNumbers :
            /\ \A f \in DeckBooleanFields : state.decks[d][f] = FALSE
            /\ \A f \in DeckNumericFields : state.decks[d][f] = Num(0)
            /\ \A f \in DeckStringFields : state.decks[d][f] = Str(<<>>)

(***************************************************************************)
(* C12  As the code has it: in the initial state and after every reset,    *)
(* each of the four decks has every boolean field false, every string      *)
(* field '', currentKeyIndex -1 and every other numeric field 0; artwork   *)
(* and jogColor are null and no hot cue is set.                            *)
(***************************************************************************)
C12_DefaultsButKeyIndex ==
    FreshTree =>
        \A d \in DeckNumbers :
            /\ \A f \in DeckBooleanFields : state.decks[d][f] = FALSE
            /\ \A f \in DeckNumericFields \ {"currentKeyIndex"} : state.decks[d][f] = Num(0)
            /\ state.decks[d].currentKeyIndex = Num(-1)
            /\ \A f \in DeckStringFields : state.decks[d][f] = Str(<<>>)
            /\ state.decks[d].artwork = Null
            /\ state.decks[d].jogColor = Null
            /\ ~state.decks[d].hotcues.has

\* stop() recreates a tree whose deck 1 played a song with a sample rate.
C12_Witness ==
    /\ last.kind = "stop"
    /\ prev.decks[1].play
    /\ prev.decks[1].songName = Str(<<"S","o","n","g">>)
    /\ prev.decks[1].sampleRate = Num(2)
    /\ ~state.decks[1].play
    /\ state.decks[1].currentKeyIndex = Num(-1)

(***************************************************************************)
(* C13  After a raw CurrentKeyIndex update with the integer k the deck's   *)
(* currentKey is the label of k, which is not empty, for k in 0..23, and   *)
(* '' for every other integer and for a value with no integer in it.  The  *)
(* update does not fail: the state is emitted, and the other decks are as  *)
(* before.                                                                 *)
(***************************************************************************)
C13_KeyIndexResolution ==
    \A d \in KeyDecks, c \in KeyCases :
        LastMessage(EnginePath(d, <<"C","u","r","r","e","n","t","K","e","y","I","n","d","e","x">>), c.value) =>
            /\ c.inMap => /\ c.k \in 0..23
                          /\ state.decks[d].currentKey = Str(KEY_MAP[c.k + 1])
                          /\ state.decks[d].currentKey # Str(<<>>)
                          /\ state.decks[d].currentKeyIndex = Num(c.k)
            /\ ~c.inMap => state.decks[d].currentKey = Str(<<>>)
            /\ last.emits = <<"stateUpdate">>
            /\ \A e \in DeckNumbers \ {d} : state.decks[e] = prev.decks[e]

\* Index 24 arrives on a deck that showed the label of key 23.
C13_Witness ==
    /\ LastMessage(EnginePath(4, <<"C","u","r","r","e","n","t","K","e","y","I","n","d","e","x">>), Num(24))
    /\ prev.decks[4].currentKey = Str(KEY_MAP[24])
    /\ state.decks[4].currentKey = Str(<<>>)
    /\ state.decks[1].currentKey = Str(KEY_MAP[15])

(***************************************************************************)
(* C14  As the claim reads: a raw update on /Engine/Deck<N>/<rest> or on   *)
(* /Client/Deck<N>/<rest> with N not in 1..4 leaves the whole tree as it   *)
(* was, for any <rest> and value.                                          *)
(***************************************************************************)
C14_UnknownDeckIgnored ==
    \A n \in UnknownDecks, rest \in UnknownRests, v \in UnknownValues :
        (LastMessage(EnginePath(n, rest), v.value)
            \/ LastMessage(ClientPath(n, rest), v.value)) => state = prev

(***************************************************************************)
(* C14  As the code has it: with N not in 1..4 an engine path leaves the   *)
(* whole tree as it was for any <rest> and value; a client path does so    *)
(* unless <rest> contains 'DeckCount', which sets device.deckCount and     *)
(* nothing else, or contains a mixer path, which is applied to the mixer.  *)
(* No update fails: the state is emitted.                                  *)
(***************************************************************************)
C14_UnknownDeckButDeckCount ==
    \A n \in UnknownDecks, v \in UnknownValues :
        /\ \A rest \in UnknownRests :
                LastMessage(EnginePath(n, rest), v.value) =>
                    state = prev /\ last.emits = <<"stateUpdate">>
        /\ \A rest \in PlainRests :
                LastMessage(ClientPath(n, rest), v.value) =>
                    state = prev /\ last.emits = <<"stateUpdate">>
        /\ LastMessage(ClientPath(n, CountRest), v.value) =>
                /\ state = [prev EXCEPT !.device.deckCount = v.count]
                /\ last.emits = <<"stateUpdate">>
        /\ LastMessage(ClientPath(n, MixerRest), v.value) =>
                /\ state = [prev EXCEPT !.mixer.ch1Fader = v.fader]
                /\ last.emits = <<"stateUpdate">>

\* Deck 5 is told to play while deck 1 plays and the deck count is 3.
C14_Witness ==
    /\ LastMessage(EnginePath(5, <<"P","l","a","y">>), Num(3))
    /\ prev.decks[1].play
    /\ prev.decks[4].deckIsMaster
    /\ prev.device.deckCount = Num(3)
    /\ state = prev

(***************************************************************************)
(* C15  A raw update whose path matches none of the dispatcher's patterns  *)
(* leaves the whole tree as it was, for every value.                       *)
(***************************************************************************)
C15_UnmatchedPathNoOp ==
    \A path \in UnmatchedPaths, v \in UnmatchedValues :
        LastMessage(path, v) => state = prev /\ last.emits = <<"stateUpdate">>

\* A path that only begins like the active-deck path arrives with 'Deck2'
\* after deck 1 played and the fader moved; the active deck stays 1.
C15_Witness ==
    /\ LastMessage(<<"/","G","U","I","/","D","e","c","k","s","/","D","e","c","k","/","A","c","t","i","v","e","D","e","c","k","2">>, Str(<<"D","e","c","k","2">>))
    /\ prev.decks[1].play
    /\ prev.mixer.ch1Fader = Num(3)
    /\ state = prev
    /\ state.device.activeDeck = Num(1)

(***************************************************************************)
(* C16  As the claim reads: a raw update for a tracked deck whose field    *)
(* name is not a recognized name of its namespace (engine: not a name, not *)
(* 'Track/' and a name, not 'Track/CurrentBPM') leaves the deck and the    *)
(* rest of the tree as they were.                                          *)
(***************************************************************************)
C16_UnrecognizedFieldNoOp ==
    \A d \in FieldDecks, v \in FieldValues :
        /\ \A rest \in EngineNoOpRests \cup {EngineStrayRest} :
                LastMessage(EnginePath(d, rest), v.value) => state = prev
        /\ \A rest \in ClientNoOpRests \cup {ClientCountRest} :
                LastMessage(ClientPath(d, rest), v.value) => state = prev

(***************************************************************************)
(* C16  As the code has it: the update is a no-op for names without        *)
(* 'Track/' inside and for 'Track/' before an unknown name; but the engine *)
(* name 'SongTrack/Name' loses its 'Track/' and sets the deck's title, and *)
(* a client name that contains 'DeckCount' sets device.deckCount.          *)
(***************************************************************************)
C16_UnrecognizedButStray ==
    \A d \in FieldDecks, v \in FieldValues :
        /\ \A rest \in EngineNoOpRests :
                LastMessage(EnginePath(d, rest), v.value) => state = prev
        /\ \A rest \in ClientNoOpRests :
                LastMessage(ClientPath(d, rest), v.value) => state = prev
        /\ LastMessage(EnginePath(d, EngineStrayRest), v.value) =>
                state = [prev EXCEPT !.decks[d].songName = v.text,
                                     !.decks[d].trackName = v.text]
        /\ LastMessage(ClientPath(d, ClientCountRest), v.value) =>
                state = [prev EXCEPT !.device.deckCount = v.count]

\* The unknown field Track/Foo arrives for deck 3, which has a title.
C16_Witness ==
    /\ LastMessage(EnginePath(3, <<"T","r","a","c","k","/","F","o","o">>), Str(<<"O","p","u","s">>))
    /\ prev.decks[3].songName = Str(<<"S","o","n","g">>)
    /\ prev.decks[1].play
    /\ state = prev

\* The update on /Engine/Deck<N>/Track/X did to the tree what the update on
\* /Engine/Deck<N>/X with the same value does to it.
TrackLikePlain ==
    \A N \in TrackDecks, X \in TrackFields, v \in TrackValues :
        LastMessage(TrackPath(N, X), v.value) =>
            /\ state = _processRawStateChange(prev, EnginePath(N, X), v.value)
            /\ X = <<"S","o","n","g","N","a","m","e">> => /\ state.decks[N].songName = v.text
                                  /\ state.decks[N].trackName = v.text

(***************************************************************************)
(* C17  As the claim reads: /Engine/Deck<N>/Track/X has the effect of      *)
(* /Engine/Deck<N>/X for every recognized X but CurrentBPM, and a <rest>   *)
(* with 'Track/' at a later place is looked up as it is.                   *)
(***************************************************************************)
C17_OnlyLeadingTrackRemoved ==
    /\ TrackLikePlain
    /\ \A N \in TrackDecks, v \in TrackValues :
            LastMessage(EnginePath(N, LaterTrackRest), v.value) =>
                state = _applyRawDeckState(prev, N, LaterTrackRest, v.value)

(***************************************************************************)
(* C17  As the code has it: /Engine/Deck<N>/Track/X has the effect of      *)
(* /Engine/Deck<N>/X for every recognized X but CurrentBPM; the first      *)
(* 'Track/' of <rest> is removed wherever it stands, so 'SongTrack/Name'   *)
(* sets the title like 'SongName', and only the first is removed, so       *)
(* 'Track/Track/SongName' is looked up as 'Track/SongName' and does        *)
(* nothing.                                                                *)
(***************************************************************************)
C17_FirstTrackRemoved ==
    /\ TrackLikePlain
    /\ \A N \in TrackDecks, v \in TrackValues :
            /\ LastMessage(EnginePath(N, LaterTrackRest), v.value) =>
                    state = [prev EXCEPT !.decks[N].songName = v.text,
                                         !.decks[N].trackName = v.text]
            /\ LastMessage(EnginePath(N, TwiceTrackRest), v.value) => state = prev

\* Track/SongName replaces the title that SongTrack/Name had set.
C17_Witness ==
    /\ LastMessage(TrackPath(2, <<"S","o","n","g","N","a","m","e">>), Str(<<"O","p","u","s">>))
    /\ prev.decks[2].songName = Str(<<"3">>)
    /\ prev.decks[2].sampleRate = Num(3)
    /\ state.decks[2].songName = Str(<<"O","p","u","s">>)
    /\ state.decks[2].trackName = Str(<<"O","p","u","s">>)

(***************************************************************************)
(* C18  A raw update on /Client/Deck<N>/X for a recognized X updates that  *)
(* field of deck N and nothing else; a raw update on                       *)
(* /Client/Deck<N>/Track/X, Track/CurrentBPM among them, leaves deck N,    *)
(* and the rest of the tree, as it was.                                    *)
(***************************************************************************)
C18_ClientNotNormalized ==
    \A N \in ClientDecks, v \in ClientValues :
        /\ LastMessage(ClientPath(N, <<"S","o","n","g","N","a","m","e">>), v.value) =>
                state = [prev EXCEPT !.decks[N].songName = v.text,
                                     !.decks[N].trackName = v.text]
        /\ LastMessage(ClientPath(N, <<"C","u","r","r","e","n","t","B","P","M">>), v.value) =>
                state = [prev EXCEPT !.decks[N].currentBPM = v.number]
        /\ LastMessage(ClientPath(N, <<"D","e","c","k","I","s","M","a","s","t","e","r">>), v.value) =>
                state = [prev EXCEPT !.decks[N].deckIsMaster = v.flag]
        /\ \A X \in ClientFields :
                LastMessage(ClientPath(N, <<"T","r","a","c","k","/">> \o X), v.value) =>
                    /\ state.decks[N] = prev.decks[N]
                    /\ state = prev

\* /Client/Deck4/Track/CurrentBPM arrives with 3 for a deck that got its
\* title from a client path; both tempos stay 0.
C18_Witness ==
    /\ LastMessage(ClientPath(4, <<"T","r","a","c","k","/","C","u","r","r","e","n","t","B","P","M">>), Num(3))
    /\ prev.decks[4].songName = Str(<<"O","p","u","s">>)
    /\ prev.decks[4].deckIsMaster
    /\ state.decks[4].currentBPM = Num(0)
    /\ state.decks[4].trackBPM = Num(0)
    /\ state.decks[4].songName = Str(<<"O","p","u","s">>)

(***************************************************************************)
(* C19  A raw update on the exact path /GUI/Decks/Deck/ActiveDeck sets     *)
(* device.activeDeck to n when the value is the integer n, n not 0, or     *)
(* 'Deck' followed by the digits of n, and to 1 when the value has no      *)
(* integer in it or the integer is 0; nothing else in the tree changes.    *)
(***************************************************************************)
C19_ActiveDeck ==
    \A c \in ActiveDeckCases :
        LastMessage(ActiveDeckPath, c.value) =>
            /\ state.device.activeDeck = c.deck
            /\ state = [prev EXCEPT !.device.activeDeck = c.deck]

\* 'Deck3' arrives while the active deck is 2, deck 1 plays and four decks
\* are counted.
C19_Witness ==
    /\ LastMessage(ActiveDeckPath, Str(<<"D","e","c","k","3">>))
    /\ prev.device.activeDeck = Num(2)
    /\ prev.device.deckCount = Num(4)
    /\ prev.decks[1].play
    /\ state.device.activeDeck = Num(3)

\* The last step was the player status s, passed on by its handler.
LastTitleStatus(s) ==
    last.kind \in TitleEvents /\ last.input.hasStatus /\ last.input.status = s

(***************************************************************************)
(* C20  A status update resolved to deck N that carries a title sets both  *)
(* trackName and songName of deck N to the title, '' for a null or empty   *)
(* title, and its artist sets artistName; {player:3, title:'Strobe',       *)
(* artist:'deadmau5', songLoaded:true} yields on deck 3 trackName and      *)
(* songName 'Strobe', artistName 'deadmau5' and songLoaded true.  A status *)
(* with an artist and no title leaves the two title fields as they were.   *)
(***************************************************************************)
C20_TitleMirroring ==
    /\ \A c \in TitleCases :
            LastTitleStatus(c.status) =>
                /\ state.decks[c.N].trackName = c.title
                /\ state.decks[c.N].songName = c.title
                /\ state.decks[c.N].artistName = c.artist
                /\ state.decks[c.N].songLoaded = c.loaded
                /\ \A d \in DeckNumbers \ {c.N} : state.decks[d] = prev.decks[d]
    /\ LastTitleStatus([NoStatus EXCEPT !.player = Num(3), !.artist = Str(<<"K","a","s","k","a","d","e">>)]) =>
            /\ state.decks[3].trackName = prev.decks[3].trackName
            /\ state.decks[3].songName = prev.decks[3].songName
            /\ state.decks[3].artistName = Str(<<"K","a","s","k","a","d","e">>)

\* The Strobe status arrives on trackLoaded for a deck 3 without a title.
C20_Witness ==
    /\ last.kind = "trackLoaded"
    /\ last.input.hasStatus
    /\ last.input.status.title = Str(<<"S","t","r","o","b","e">>)
    /\ last.input.status.player = Num(3)
    /\ prev.decks[3].songName = Str(<<>>)
    /\ prev.decks[3].artistName = Str(<<"K","a","s","k","a","d","e">>)
    /\ state.decks[3].trackName = Str(<<"S","t","r","o","b","e">>)
    /\ state.decks[3].songName = Str(<<"S","t","r","o","b","e">>)
    /\ state.decks[3].artistName = Str(<<"d","e","a","d","m","a","u","5">>)
    /\ state.decks[3].songLoaded

(***************************************************************************)
(* C21  A raw update on /Mixer/<key> with <key> one of the five fader keys *)
(* sets exactly the field of that key to the parsed number, 0 when the     *)
(* value has no number in it, and leaves the other four mixer fields as    *)
(* they were; any other <key> leaves the mixer as it was.  In both cases   *)
(* all decks and the device record are as before.                          *)
(***************************************************************************)
C21_MixerReducer ==
    \A v \in MixerValues :
        /\ \A r \in MixerRows :
                LastMessage(MixerPath(r.key), v.value) =>
                    /\ state.mixer = [prev.mixer EXCEPT ![r.field] = v.number]
                    /\ state.decks = prev.decks
                    /\ state.device = prev.device
        /\ \A key \in OtherMixerKeys :
                LastMessage(MixerPath(key), v.value) => state = prev

\* '0.75' arrives for channel 2 while channel 1 is at 1/2 and deck 1 plays.
C21_Witness ==
    /\ LastMessage(MixerPath(<<"C","H","2","f","a","d","e","r","P","o","s","i","t","i","o","n">>), Str(<<"0",".","7","5">>))
    /\ prev.mixer.ch1Fader = Rat(1, 2)
    /\ prev.mixer.ch2Fader = Num(0)
    /\ prev.decks[1].play
    /\ state.mixer.ch2Fader = Rat(3, 4)
    /\ state.mixer.ch1Fader = Rat(1, 2)

\* The last step was a raw message with a path name, or a player-status
\* event with a status object.
LastUpdate ==
    \/ last.kind = "message" /\ last.input.path # <<>>
    \/ last.kind \in ChannelEvents /\ last.input.hasStatus

(***************************************************************************)
(* C22  Every raw message with a path name and every player-status event   *)
(* is followed, before the next update, by exactly one stateUpdate that    *)
(* carries the tree as it is after the update, also when the update        *)
(* changed nothing or was dropped.  A message without a name emits         *)
(* nothing.                                                                *)
(***************************************************************************)
C22_BroadcastPerUpdate ==
    /\ LastUpdate => /\ last.emits = <<"stateUpdate">>
                     /\ last.sent = <<state>>
    /\ last.kind = "message" /\ last.input.path = <<>> =>
            last.emits = <<>> /\ state = prev

\* A status for the unknown deck Z is dropped on nowPlaying, and the tree
\* with the playing deck 1 is sent all the same.
C22_Witness ==
    /\ last.kind = "nowPlaying"
    /\ last.input.hasStatus
    /\ last.input.status.deck = Str(<<"Z">>)
    /\ prev.decks[1].play
    /\ state = prev
    /\ last.sent = <<state>>

(***************************************************************************)
(* C23  A status update resolved to deck N stores each hotcue descriptor   *)
(* it carries under its index in deck N's mapping and leaves every other   *)
(* index, and the other decks' mappings, as they were; no status update    *)
(* removes an entry, and the indexes are among 1..8.                       *)
(***************************************************************************)
C23_HotcueMerge ==
    /\ \A c \in HotcueCases :
            (LastStatus /\ last.input.status = c.status) =>
                /\ \A p \in c.cues : state.decks[c.N].hotcues.map[p[1]] = p[2]
                /\ \A i \in HotcueSlots \ {p[1] : p \in c.cues} :
                        state.decks[c.N].hotcues.map[i] = prev.decks[c.N].hotcues.map[i]
                /\ state.decks[c.N].hotcues.has = (prev.decks[c.N].hotcues.has \/ c.cues # {})
                /\ \A d \in DeckNumbers \ {c.N} :
                        state.decks[d].hotcues = prev.decks[d].hotcues
    /\ \A d \in DeckNumbers :
            /\ DOMAIN state.decks[d].hotcues.map = 1..8
            /\ last.kind = "stateChanged" =>
                    \A i \in HotcueSlots :
                        prev.decks[d].hotcues.map[i] # Undefined =>
                            state.decks[d].hotcues.map[i] # Undefined

\* A status with hotcue 5 and a null hotcue 1 arrives for deck 1, which has
\* hotcues 1 and 8: both stay, 5 is added.
C23_Witness ==
    /\ LastStatus
    /\ last.input.status.hotcue[5] = Obj(4)
    /\ last.input.status.hotcue[1] = Null
    /\ prev.decks[1].hotcues.map[1] = Obj(2)
    /\ prev.decks[1].hotcues.map[8] = Obj(3)
    /\ prev.decks[1].hotcues.map[5] = Undefined
    /\ state.decks[1].hotcues.map[1] = Obj(2)
    /\ state.decks[1].hotcues.map[8] = Obj(3)
    /\ state.decks[1].hotcues.map[5] = Obj(4)

(***************************************************************************)
(* C24  A raw update whose path contains DeckCount and is no engine deck   *)
(* path and no mixer path sets device.deckCount to the integer in the      *)
(* value, and to 2 when the value has no integer in it or the integer is   *)
(* 0; an engine deck path or mixer path with DeckCount in it leaves the    *)
(* count as it was.  device.deckCount is 0 in no reachable state.          *)
(***************************************************************************)
C24_DeckCount ==
    /\ \A v \in DeckCountValues :
            /\ \A path \in DeckCountPaths :
                    LastMessage(path, v.value) =>
                        state = [prev EXCEPT !.device.deckCount = v.count]
            /\ \A path \in EarlierDeckCountPaths :
                    LastMessage(path, v.value) =>
                        state.device.deckCount = prev.device.deckCount
    /\ state.device.deckCount # Num(0)
    /\ ~IsNaN(state.device.deckCount)

\* The count 0 arrives while four decks are counted: the count is 2.
C24_Witness ==
    /\ LastMessage(<<"/","C","l","i","e","n","t","/","P","r","e","f","e","r","e","n","c","e","s","/","D","e","c","k","C","o","u","n","t">>, Num(0))
    /\ prev.device.deckCount = Num(4)
    /\ state.device.deckCount = Num(2)

\* The tree before the last step with deck 1's currentPosition replaced.
WithPosition(position) == [prev EXCEPT !.decks[1].currentPosition = position]

(***************************************************************************)
(* C25  PlayStatePath with a value f in 0..1 sets currentPosition to       *)
(* f * trackLength when the deck's trackLength is positive, and leaves it  *)
(* as it was when it is not; a value above 1 is a sample count and sets    *)
(* currentPosition to value / sampleRate when the sample rate is positive  *)
(* (to 0 when it is not); a negative value leaves currentPosition as it    *)
(* was.  Nothing else in the tree changes.                                 *)
(***************************************************************************)
C25_PositionAsFraction ==
    \A v \in PositionValues :
        LastMessage(PositionPath, v.value) =>
            /\ v.kind = "fraction" /\ GtZero(prev.decks[1].trackLength) =>
                    state = WithPosition(Mul(v.number, prev.decks[1].trackLength))
            /\ v.kind = "fraction" /\ ~GtZero(prev.decks[1].trackLength) => state = prev
            /\ v.kind = "samples" /\ GtZero(prev.decks[1].sampleRate) =>
                    state = WithPosition(Div(v.number, prev.decks[1].sampleRate))
            /\ v.kind = "samples" /\ ~GtZero(prev.decks[1].sampleRate) =>
                    state = WithPosition(Num(0))
            /\ v.kind = "negative" => state = prev

\* Half of a track of 4 seconds: the position is 2 seconds.
C25_Witness ==
    /\ LastMessage(PositionPath, Rat(1, 2))
    /\ prev.decks[1].trackLength = Num(4)
    /\ prev.decks[1].currentPosition = Rat(3, 2)
    /\ state.decks[1].currentPosition = Num(2)

\* The raw updates of the two channels' shared fields: path, value, the
\* field and the flag it gets.
RawFlagCases ==
    {[path |-> EnginePath(1, <<"P","l","a","y">>), value |-> Bool(TRUE), field |-> "play", flag |-> TRUE],
     [path |-> EnginePath(1, <<"P","l","a","y">>), value |-> Num(0), field |-> "play", flag |-> FALSE],
     [path |-> EnginePath(1, <<"S","o","n","g","L","o","a","d","e","d">>), value |-> Str(<<"y","e","s">>),
      field |-> "songLoaded", flag |-> TRUE],
     [path |-> EnginePath(1, <<"S","o","n","g","L","o","a","d","e","d">>), value |-> Bool(FALSE),
      field |-> "songLoaded", flag |-> FALSE]}

\* The status updates for deck 1: what each does to play and to songLoaded.
StatusFlagCases ==
    {[status |-> [NoStatus EXCEPT !.deck = Str(<<"A">>), !.play = Bool(FALSE)],
      play |-> "off", songLoaded |-> "keep"],
     [status |-> [NoStatus EXCEPT !.deck = Str(<<"A">>), !.play = Num(1),
                                  !.songLoaded = Bool(TRUE)],
      play |-> "on", songLoaded |-> "on"],
     [status |-> [NoStatus EXCEPT !.deck = Str(<<"A">>), !.songLoaded = Num(0)],
      play |-> "keep", songLoaded |-> "off"],
     [status |-> [NoStatus EXCEPT !.deck = Str(<<"A">>), !.title = Str(<<"S","o","n","g">>)],
      play |-> "keep", songLoaded |-> "keep"]}

FlagAfter(what, old) == IF what = "keep" THEN old ELSE what = "on"

\* The last step carried play or songLoaded for deck 1.
CarriedFlags ==
    \/ \E c \in RawFlagCases : LastMessage(c.path, c.value)
    \/ \E c \in StatusFlagCases :
            last.kind \in ChannelEvents /\ last.input.hasStatus /\ last.input.status = c.status

(***************************************************************************)
(* C26  Last write wins across the two channels: after a raw update that   *)
(* carries play or songLoaded for a deck the field has the truthiness of   *)
(* its value, after a status update that carries the field it has the      *)
(* truthiness of the status's value, whatever channel wrote it before; an  *)
(* update that does not carry the field, or is dropped, leaves it as it    *)
(* was.  So the field always shows the latest update that carried it.      *)
(***************************************************************************)
C26_LastWriteWins ==
    /\ \A c \in RawFlagCases :
            LastMessage(c.path, c.value) =>
                state.decks[1] = [prev.decks[1] EXCEPT ![c.field] = c.flag]
    /\ \A c \in StatusFlagCases :
            (last.kind \in ChannelEvents /\ last.input.hasStatus
                /\ last.input.status = c.status) =>
                /\ state.decks[1].play = FlagAfter(c.play, prev.decks[1].play)
                /\ state.decks[1].songLoaded = FlagAfter(c.songLoaded, prev.decks[1].songLoaded)
    /\ ~CarriedFlags =>
            /\ state.decks[1].play = prev.decks[1].play
            /\ state.decks[1].songLoaded = prev.decks[1].songLoaded

\* The status {deck:'A', play:false} stops the deck that plays and leaves
\* songLoaded, which the status does not carry, as it was.
C26_Witness ==
    /\ last.kind = "stateChanged"
    /\ last.input.hasStatus
    /\ last.input.status.play = Bool(FALSE)
    /\ prev.decks[1].play
    /\ prev.decks[1].songLoaded
    /\ ~state.decks[1].play
    /\ state.decks[1].songLoaded

(***************************************************************************)
(* C27  A SampleRate update whose value is 0, negative or has no number in *)
(* it stores that rate (0 without a number) and leaves the four seconds    *)
(* fields and the raw fields as they were; a SampleRate update to a        *)
(* positive rate r stores r, sets every seconds field whose raw value is   *)
(* not 0 to raw / r and leaves the others, and the raw fields, as they     *)
(* were.                                                                   *)
(***************************************************************************)
C27_DeferredRecomputation ==
    \A d \in {1, 3}, r \in SampleRates :
        (LastMessage(TrackPath(d, <<"S","a","m","p","l","e","R","a","t","e">>), r.in)
            \/ LastMessage(EnginePath(d, <<"S","a","m","p","l","e","R","a","t","e">>), r.in)) =>
            /\ r.out.n <= 0 => state = [prev EXCEPT !.decks[d].sampleRate = r.out]
            /\ r.out.n > 0 =>
                /\ state.decks[d].sampleRate = r.out
                /\ \A key \in SampleKeys :
                    LET raw == RawOf(prev.decks[d], key)
                    IN  /\ RawOf(state.decks[d], key) = raw
                        /\ raw # Num(0) =>
                                SecondsFieldOf(state.decks[d], key) = Quotient(raw, r.out)
                        /\ raw = Num(0) =>
                                SecondsFieldOf(state.decks[d], key) =
                                    SecondsFieldOf(prev.decks[d], key)

\* The rate 'fast' arrives for a deck with 8 samples at rate 2: the rate is
\* 0 and the 4 seconds stay.
C27_Witness ==
    /\ LastMessage(TrackPath(1, <<"S","a","m","p","l","e","R","a","t","e">>), Str(<<"f","a","s","t">>))
    /\ prev.decks[1].sampleRate = Num(2)
    /\ prev.decks[1].trackLengthRaw = Num(8)
    /\ prev.decks[1].trackLength = Num(4)
    /\ state.decks[1].sampleRate = Num(0)
    /\ state.decks[1].trackLength = Num(4)

\* The five levels of the mixer.
MixerLevels == {state.mixer[r.field] : r \in MixerRows}

InUnitRange(a) == GeZero(a) /\ LeOne(a)

(***************************************************************************)
(* C28  As the claim reads: in every reachable state the four fader levels *)
(* and the crossfader level lie in 0..1, whatever numbers the mixer        *)
(* updates carried.                                                        *)
(***************************************************************************)
C28_MixerRange ==
    \A level \in MixerLevels : InUnitRange(level)

(***************************************************************************)
(* C28  As the code has it: a level is the number its last update carried, *)
(* in the range or not (or its initial value); so the levels lie in 0..1   *)
(* as long as no update carried a number outside 0..1, and an update with  *)
(* the number 2 leaves the level 2.                                        *)
(***************************************************************************)
C28_MixerLevelAsCarried ==
    /\ \A level \in MixerLevels :
            level \in {Num(0), Rat(1, 2)} \cup {v.number : v \in MixerValues}
    /\ \A r \in MixerRows, v \in MixerValues :
            LastMessage(MixerPath(r.key), v.value) =>
                /\ state.mixer[r.field] = v.number
                /\ InUnitRange(state.mixer[r.field]) = InUnitRange(v.number)
    /\ (\A level \in {prev.mixer[r.field] : r \in MixerRows} : InUnitRange(level))
        /\ (\A v \in MixerValues : last.input.value = v.value => InUnitRange(v.number))
        => \A level \in MixerLevels : InUnitRange(level)

\* The crossfader is told 2 while it is at 1/2: it is at 2.
C28_Witness ==
    /\ LastMessage(MixerPath(<<"C","r","o","s","s","f","a","d","e","r","P","o","s","i","t","i","o","n">>), Num(2))
    /\ prev.mixer.crossfader = Rat(1, 2)
    /\ state.mixer.crossfader = Num(2)
    /\ ~InUnitRange(state.mixer.crossfader)

AddressedTo(prefix, N) ==
    LET head == prefix \o <<DigitChars[N + 1]>> \o <<"/">>
    IN  /\ last.kind = "message"
        /\ Len(last.input.path) >= Len(head)
        /\ SubSeq(last.input.path, 1, Len(head)) = head

\* The other decks, the mixer and the device record are as before.
FrameKept(N) ==
    /\ \A d \in DeckNumbers \ {N} : state.decks[d] = prev.decks[d]
    /\ state.mixer = prev.mixer
    /\ state.device = prev.device

(***************************************************************************)
(* C30  As the claim reads: a raw deck update addressed to deck N, in      *)
(* either namespace, leaves the other three decks, the mixer and the       *)
(* device record as they were; the deck slots are 1, 2, 3, 4 in every      *)
(* reachable state.                                                        *)
(***************************************************************************)
C30_UpdateFrame ==
    /\ \A N \in DeckNumbers :
            (AddressedTo(<<"/","E","n","g","i","n","e","/","D","e","c","k">>, N) \/ AddressedTo(<<"/","C","l","i","e","n","t","/","D","e","c","k">>, N))
                => FrameKept(N)
    /\ DOMAIN state.decks = {1, 2, 3, 4}

(***************************************************************************)
(* C30  As the code has it: an engine update addressed to deck N leaves    *)
(* the other three decks, the mixer and the device record as they were;    *)
(* so does a client update, except that a client path that contains        *)
(* 'DeckCount' sets device.deckCount as well (and nothing else outside     *)
(* deck N).  The deck slots are 1, 2, 3, 4 in every reachable state.       *)
(***************************************************************************)
C30_UpdateFrameButDeckCount ==
    /\ \A N \in DeckNumbers :
            /\ AddressedTo(<<"/","E","n","g","i","n","e","/","D","e","c","k">>, N) => FrameKept(N)
            /\ AddressedTo(<<"/","C","l","i","e","n","t","/","D","e","c","k">>, N) =>
                    /\ \A d \in DeckNumbers \ {N} : state.decks[d] = prev.decks[d]
                    /\ state.mixer = prev.mixer
                    /\ \A v \in FieldValues :
                            IF last.input.path = ClientPath(N, ClientCountRest)
                            THEN last.input.value = v.value =>
                                    state.device = [prev.device EXCEPT !.deckCount = v.count]
                            ELSE state.device = prev.device
    /\ DOMAIN state.decks = {1, 2, 3, 4}

\* Deck 3 becomes the master by a client update while deck 1 plays and
\* three decks are counted.
C30_Witness ==
    /\ LastMessage(ClientPath(3, <<"D","e","c","k","I","s","M","a","s","t","e","r">>), Bool(TRUE))
    /\ prev.decks[1].play
    /\ prev.device.deckCount = Num(3)
    /\ ~prev.decks[3].deckIsMaster
    /\ state.decks[3].deckIsMaster
    /\ state.decks[1] = prev.decks[1]
    /\ state.device = prev.device

(***************************************************************************)
(* The tree over its whole life: started in either mode, fed by raw        *)
(* updates and player statuses that write titles and key indexes, changed  *)
(* by the demo timer, and reset by restarts into either mode.              *)
(***************************************************************************)
TreeMessages ==
    {ValueMessage(TrackPath(1, <<"S","o","n","g","N","a","m","e">>), Str(<<"R","a","w">>)),
     ValueMessage(TrackPath(1, <<"T","r","a","c","k","N","a","m","e">>), Str(<<"a",".","m","p","3">>)),
     ValueMessage(EnginePath(1, <<"C","u","r","r","e","n","t","K","e","y","I","n","d","e","x">>), Num(5)),
     ValueMessage(EnginePath(1, <<"C","u","r","r","e","n","t","K","e","y","I","n","d","e","x">>), Num(24)),
     ValueMessage(EnginePath(2, <<"C","u","r","r","e","n","t","K","e","y","I","n","d","e","x">>), Str(<<"a","b","c">>))}

TreeStatuses ==
    {[NoStatus EXCEPT !.deck = Str(<<"A">>), !.title = Str(<<"S","o","n","g">>)],
     [NoStatus EXCEPT !.deck = Str(<<"B">>), !.title = Null],
     [NoStatus EXCEPT !.player = Num(2), !.title = Num(7)]}

NextTree ==
    \/ Boot
    \/ Message(TreeMessages)
    \/ PlayerStatus({"stateChanged"}, TreeStatuses)
    \/ DemoTick({Num(128)}, {Rat(1, 2)}, {Rat(3, 4)})
    \/ CallStop({"live", "demo"})
    \/ StopResume
    \/ Continue

SpecTree == Init /\ [][NextTree]_vars

(***************************************************************************)
(* The connection over its life: the manager started in either mode, the   *)
(* library's connection events, the client's requests to connect and to    *)
(* disconnect a device, the demo timer, and mode switches.                 *)
(***************************************************************************)
LifeIps == {Str(<<"1","6","9",".","2","5","4",".","1","3",".","3","7">>), Str(<<"1","0",".","0",".","0",".","5">>)}

NextLife ==
    \/ Boot
    \/ Ready
    \/ Connected(DeviceInfos)
    \/ Listening
    \/ ConnectFailed
    \/ ConnectToDevice(LifeIps)
    \/ DisconnectDevice(LifeIps)
    \/ DemoTick({Num(128)}, {Rat(1, 2)}, {Rat(3, 4)})
    \/ CallStop({"live", "demo"})
    \/ StopResume
    \/ Continue

SpecLife == Init /\ [][NextLife]_vars

(***************************************************************************)
(* Mode switches: up to MaxSwitches requests to switch the mode, which may *)
(* overlap while stop() waits for the library, with the demo timer and     *)
(* the 'ready' event of a device.                                          *)
(***************************************************************************)
MaxSwitches == 2

NextSwitch ==
    \/ Boot
    \/ Ready
    \/ DemoTick({Num(128), Num(129)}, {Rat(1, 2)}, {Rat(3, 4)})
    \/ CallStopUpTo({"live", "demo"}, MaxSwitches)
    \/ StopResume
    \/ Continue

SpecSwitch == Init /\ [][NextSwitch]_vars

(***************************************************************************)
(* The device history: devices become ready (one of them a second time     *)
(* with a newer software version, two of them at the same address), the    *)
(* client removes entries and sets the auto-connect preference, and time   *)
(* passes.                                                                 *)
(***************************************************************************)
HistoryInfos ==
    {[address |-> Str(<<"1","0",".","0",".","0",".","5">>), source |-> Str(<<"S","C","6","0","0","0">>),
      softwareName |-> Str(<<"J","P","1","4">>), softwareVersion |-> v, port |-> Num(50010)] :
        v \in {Str(<<"3",".","4",".","0">>), Str(<<"3",".","5",".","0">>)}}
    \cup {[address |-> Str(<<"1","0",".","0",".","0",".","5">>), source |-> Str(<<"P","r","i","m","e","4">>),
           softwareName |-> Str(<<"J","P","1","1">>), softwareVersion |-> Str(<<"3",".","4",".","0">>),
           port |-> Num(50011)]}

HistoryPairs ==
    {[ip |-> Str(<<"1","0",".","0",".","0",".","5">>), deviceName |-> Str(<<"S","C","6","0","0","0">>)],
     [ip |-> Str(<<"1","0",".","0",".","0",".","5">>), deviceName |-> Str(<<"P","r","i","m","e","4">>)],
     [ip |-> Str(<<"1","0",".","0",".","0",".","9">>), deviceName |-> Str(<<"S","C","6","0","0","0">>)]}

NextHistory ==
    \/ Boot
    \/ Connected(HistoryInfos)
    \/ RemoveRequest(HistoryPairs)
    \/ AutoConnectRequest(HistoryPairs, {Bool(TRUE), Bool(FALSE)})
    \/ Advance

SpecHistory == InitLive /\ [][NextHistory]_vars

(***************************************************************************)
(* The page: its socket opens, fails and closes, is connected again after  *)
(* the delay, and carries states with the track paths of two decks, whose  *)
(* artwork is requested, delayed, loaded or not.  Timers fire and the      *)
(* close of a socket that is closing arrives: the fair specification says  *)
(* so.                                                                     *)
(***************************************************************************)
PageUpdates ==
    {[deck |-> 1, path |-> path] :
        path \in {Str(<<>>), Str(<<"n","e","t",":","/","/","a",".","m","p","3">>), Str(<<"n","e","t",":","/","/","b",".","m","p","3">>)}}
    \cup {[deck |-> 2, path |-> Str(<<"n","e","t",":","/","/","a",".","m","p","3">>)]}

NextPage ==
    \/ LoadPage
    \/ SocketOpen
    \/ SocketError
    \/ SocketClose
    \/ SocketCloseAfterClosing
    \/ ReconnectFires
    \/ StateMessage(PageUpdates)
    \/ ArtworkTimer
    \/ ImageLoaded
    \/ ImageFailed

SpecPage == Init /\ [][NextPage]_vars

SpecPageFair ==
    SpecPage /\ WF_vars(ReconnectFires) /\ WF_vars(SocketCloseAfterClosing)

(***************************************************************************)
(* C31  In every state reached by raw updates, status updates, the start   *)
(* of the demo and resets, each deck's trackName equals its songName.      *)
(***************************************************************************)
C31_TitleFieldsAgree ==
    \A d \in DeckNumbers : state.decks[d].trackName = state.decks[d].songName

\* A raw SongName replaces the title a status gave deck 1, whose file path
\* a raw TrackName had set.
C31_Witness ==
    /\ LastMessage(TrackPath(1, <<"S","o","n","g","N","a","m","e">>), Str(<<"R","a","w">>))
    /\ prev.decks[1].songName = Str(<<"S","o","n","g">>)
    /\ prev.decks[1].trackName = Str(<<"S","o","n","g">>)
    /\ prev.decks[1].trackUri = Str(<<"a",".","m","p","3">>)
    /\ state.decks[1].songName = Str(<<"R","a","w">>)
    /\ state.decks[1].trackName = Str(<<"R","a","w">>)

(***************************************************************************)
(* C32  In every reachable state each deck's currentKey is the label the   *)
(* key table gives its currentKeyIndex, and '' when the index is not one   *)
(* of 0..23 (the initial -1 and a missing number included).                *)
(***************************************************************************)
C32_KeyLabelInStep ==
    \A d \in DeckNumbers :
        LET deck == state.decks[d]
        IN  /\ \A k \in 0..23 :
                    deck.currentKeyIndex = Num(k) => deck.currentKey = Str(KEY_MAP[k + 1])
            /\ deck.currentKeyIndex \notin {Num(k) : k \in 0..23} =>
                    deck.currentKey = Str(<<>>)

\* Index 24 arrives on deck 1, which showed the label of key 5, while
\* deck 2 has no number for an index.
C32_Witness ==
    /\ LastMessage(EnginePath(1, <<"C","u","r","r","e","n","t","K","e","y","I","n","d","e","x">>), Num(24))
    /\ prev.decks[1].currentKeyIndex = Num(5)
    /\ prev.decks[1].currentKey = Str(<<"3","B"," ","(","D","b",")">>)
    /\ state.decks[1].currentKey = Str(<<>>)
    /\ state.decks[2].currentKeyIndex = NaN
    /\ state.decks[3].currentKeyIndex = Num(-1)

\* The demo timers that run: the one the handle refers to, and those that
\* no handle refers to any more.
DemoTimers == (IF _demoInterval THEN 1 ELSE 0) + leakedTimers

(***************************************************************************)
(* C33  As the claim reads: at most one demo timer runs at any time; once  *)
(* stop() has completed no demo timer runs; in live mode no demo tick      *)
(* changes the state; whatever the interleaving of restart() and stop().   *)
(***************************************************************************)
C33_OneDemoTimer ==
    /\ DemoTimers <= 1
    /\ last.kind = "stop" => DemoTimers = 0
    /\ last.kind = "tick" => demoMode

(***************************************************************************)
(* C33  As the code has it: a call of stop() clears the timer handle       *)
(* before it waits; and as long as fewer than two calls of stop() were     *)
(* made, at most one demo timer runs, none runs once stop() has completed, *)
(* and a tick comes in demo mode only.                                     *)
(***************************************************************************)
C33_OneDemoTimerUnlessOverlap ==
    /\ last.kind = "stopAwait" => ~_demoInterval
    /\ stops < 2 =>
            /\ DemoTimers <= 1
            /\ last.kind = "stop" => DemoTimers = 0
            /\ last.kind = "tick" => demoMode

\* The one switch out of the demo has stopped the timer.
C33_Witness ==
    /\ last.kind = "stop"
    /\ stops = 1
    /\ prev.device.name = Str(<<"D","e","n","o","n"," ","P","r","i","m","e"," ","4"," ","(","D","e","m","o",")">>)
    /\ prev.decks[1].currentBPM = Num(128)
    /\ DemoTimers = 0

\* How often the last step emitted the event.
Emitted(event) == Cardinality({i \in 1..Len(last.emits) : last.emits[i] = event})

\* What stop() emits when it completes, given the connected flag it goes by;
\* and what makes a second notification impossible: the flag is false after
\* stop() and after a disconnectDevice that notified.
StopNotifies(flag) ==
    /\ last.kind = "stop" =>
            /\ Emitted("deviceDisconnected") = IF flag THEN 1 ELSE 0
            /\ Emitted("stateUpdate") = 1
            /\ last.sent = <<_createEmptyState>>
            /\ state = _createEmptyState
            /\ ~connected
    /\ (last.kind = "disconnect" /\ Emitted("deviceDisconnected") > 0) =>
            /\ Emitted("deviceDisconnected") = 1
            /\ ~connected

(***************************************************************************)
(* C34  As the claim reads: stop() emits deviceDisconnected once if the    *)
(* connected flag was true when stop() was called, and not at all          *)
(* otherwise; it always emits one stateUpdate, which carries the fresh     *)
(* tree; after it, and after a disconnectDevice that notified, the flag is *)
(* false, so that a stop() that follows does not notify again.             *)
(***************************************************************************)
C34_DisconnectNotifiedAsCalled == StopNotifies(last.input.value = Bool(TRUE))

(***************************************************************************)
(* C34  As the code has it: stop() emits deviceDisconnected once if the    *)
(* connected flag is true when stop() reads it, which is after it has      *)
(* waited for the library's disconnect (at the call, if there is no        *)
(* instance to wait for), and not at all otherwise; it always emits one    *)
(* stateUpdate, which carries the fresh tree; after it, and after a        *)
(* disconnectDevice that notified, the flag is false, so that a stop()     *)
(* that follows does not notify again.                                     *)
(***************************************************************************)
C34_DisconnectNotifiedAsRead == StopNotifies(last.was)

\* A device became ready while stop() waited: stop() was called
\* unconnected and notifies the disconnection.
C34_Witness ==
    /\ last.kind = "stop"
    /\ last.input.value = Bool(FALSE)
    /\ last.was
    /\ prev.device.connectionState = "connected"
    /\ last.emits = <<"deviceDisconnected", "stateUpdate">>
    /\ state.device.connectionState = "disconnected"

(***************************************************************************)
(* C35  Whenever the tree says that the connection state is 'connected',   *)
(* the manager's connected flag is true: in every state between two        *)
(* handlers, and at every stateUpdate a handler emits.                     *)
(***************************************************************************)
C35_ConnectedStateHasFlag ==
    /\ state.device.connectionState = "connected" => connected
    /\ Len(last.flags) = Len(last.sent)
    /\ \A i \in 1..Len(last.sent) :
            last.sent[i].device.connectionState = "connected" => last.flags[i]

\* In the demo the client disconnects the demo device and connects an
\* address that was not discovered.
C35_Witness ==
    /\ last.kind = "connect"
    /\ last.input.value = Str(<<"1","0",".","0",".","0",".","5">>)
    /\ ~last.was
    /\ prev.device.connectionState = "disconnected"
    /\ state.device.connectionState = "connected"
    /\ state.device.name = Str(<<"M","a","n","u","a","l"," ","D","e","v","i","c","e"," ","@"," ","1","0",".","0",".","0",".","5">>)
    /\ connected
    /\ last.flags = <<TRUE>>

\* The last step was about the pair: the event of the device, or a request
\* of the kind.
LastOn(kind, pair) ==
    /\ last.kind = kind
    /\ last.input.status.address = pair.ip
    /\ last.input.status.source = pair.deviceName

\* The places of the pair in a history.
PlacesOf(devs, pair) ==
    {i \in 1..Len(devs) : devs[i].ip = pair.ip /\ devs[i].deviceName = pair.deviceName}

(***************************************************************************)
(* C36  From an empty history, after any upserts, preference changes and   *)
(* removals the history holds at most one entry per pair of address and    *)
(* device name.  The upsert of a known pair changes its entry where it is  *)
(* (the list is as long as before, the other entries are as before, the    *)
(* entry has the new version and time) and keeps its firstSeen; the upsert *)
(* of a new pair appends an entry.  After remove the pair has no entry,    *)
(* and shouldAutoConnect returns false for it.                             *)
(***************************************************************************)
C36_HistoryUniqueness ==
    \A pair \in HistoryPairs :
        /\ Cardinality(PlacesOf(devices, pair)) <= 1
        /\ LastOn("connected", pair) =>
                IF PlacesOf(last.history, pair) # {}
                THEN /\ Len(devices) = Len(last.history)
                     /\ \A i \in 1..Len(devices) :
                            IF i \in PlacesOf(last.history, pair)
                            THEN /\ i \in PlacesOf(devices, pair)
                                 /\ devices[i].firstSeen = last.history[i].firstSeen
                                 /\ devices[i].lastSeen = last.at
                                 /\ devices[i].softwareVersion = last.input.value
                            ELSE devices[i] = last.history[i]
                ELSE /\ Len(devices) = Len(last.history) + 1
                     /\ SubSeq(devices, 1, Len(last.history)) = last.history
                     /\ Len(devices) \in PlacesOf(devices, pair)
                     /\ devices[Len(devices)].firstSeen = last.at
        /\ LastOn("remove", pair) =>
                /\ PlacesOf(devices, pair) = {}
                /\ shouldAutoConnect(devices, pair.ip, pair.deviceName) = Bool(FALSE)
                /\ \A i \in 1..Len(devices) : \E j \in 1..Len(last.history) :
                        devices[i] = last.history[j]

\* The SC6000 is seen again, later and with a newer version, after the
\* Prime4 at its address was entered behind it.
C36_Witness ==
    /\ LastOn("connected", [ip |-> Str(<<"1","0",".","0",".","0",".","5">>), deviceName |-> Str(<<"S","C","6","0","0","0">>)])
    /\ Len(last.history) = 2
    /\ Len(devices) = 2
    /\ last.history[1].softwareVersion = Str(<<"3",".","4",".","0">>)
    /\ devices[1].softwareVersion = Str(<<"3",".","5",".","0">>)
    /\ devices[1].firstSeen = 0
    /\ devices[1].lastSeen = 2
    /\ devices[2].deviceName = Str(<<"P","r","i","m","e","4">>)

\* The stored preference of a known pair is false before the last step.
StoredFalse(pair) ==
    /\ PlacesOf(last.history, pair) # {}
    /\ shouldAutoConnect(last.history, pair.ip, pair.deviceName) = Bool(FALSE)

(***************************************************************************)
(* C37  As the claim reads: once the preference of a known device is       *)
(* false, shouldAutoConnect returns false for it until setAutoConnect      *)
(* with true is called for it; an upsert of the device does not change it. *)
(***************************************************************************)
C37_PreferenceKept ==
    \A pair \in HistoryPairs :
        (StoredFalse(pair) /\ ~(LastOn("autoConnect", pair) /\ last.input.value = Bool(TRUE)))
            => shouldAutoConnect(devices, pair.ip, pair.deviceName) = Bool(FALSE)

(***************************************************************************)
(* C37  As the code has it: once the preference of a known device is       *)
(* false, shouldAutoConnect returns false for it until setAutoConnect      *)
(* with true is called for it or the device is upserted, as on each        *)
(* deviceReady event: the upsert sets the preference to true.              *)
(***************************************************************************)
C37_PreferenceLostOnUpsert ==
    \A pair \in HistoryPairs :
        StoredFalse(pair) =>
            shouldAutoConnect(devices, pair.ip, pair.deviceName) =
                IF LastOn("connected", pair)
                    \/ (LastOn("autoConnect", pair) /\ last.input.value = Bool(TRUE))
                THEN Bool(TRUE)
                ELSE Bool(FALSE)

\* The device whose preference was set to false becomes ready again.
C37_Witness ==
    /\ LastOn("connected", [ip |-> Str(<<"1","0",".","0",".","0",".","5">>), deviceName |-> Str(<<"S","C","6","0","0","0">>)])
    /\ Len(last.history) = 1
    /\ last.history[1].autoConnect = Bool(FALSE)
    /\ devices[1].autoConnect = Bool(TRUE)
    /\ devices[1].firstSeen = last.history[1].firstSeen

(***************************************************************************)
(* C38  At any time at most one WebSocket of the page is not closed and    *)
(* at most one reconnect timer is pending; after the close of a socket,    *)
(* and after an error of one, a new connection is attempted in the end,    *)
(* whatever open, error and close events arrive.                           *)
(***************************************************************************)
C38_Reconnect ==
    /\ [](Cardinality(NonClosed(page)) <= 1 /\ page.timers <= 1)
    /\ (page.did.kind = "close") ~> (page.did.kind = "connect")
    /\ (page.did.kind = "error") ~> (page.did.kind = "connect")

\* The page has connected again after the socket it had opened was closed.
C38_Witness ==
    /\ page.did.kind = "connect"
    /\ page.ws = 1
    /\ page.sockets[1] = "connecting"
    /\ page.sockets[2] = "none"
    /\ ~page.reconnectTimer
    /\ page.timers = 0
    /\ page.artworkRequestId[1] > 0

(***************************************************************************)
(* C39  The image of an artwork request is never inserted into the deck's  *)
(* container once a later loadArtwork or clearArtwork of the deck has      *)
(* happened: an image the container shows is that of the deck's latest     *)
(* request, and an image that finishes loading for an earlier request is   *)
(* not inserted.                                                           *)
(***************************************************************************)
C39_OnlyLatestRenders ==
    \A d \in PageDecks :
        /\ page.container[d].kind = "image" =>
                page.container[d].req = page.artworkRequestId[d]
        /\ (page.did.kind = "load" /\ page.did.deck = d
                /\ page.did.req # page.artworkRequestId[d]) =>
                page.container[d] # [kind |-> "image", req |-> page.did.req]

\* The image of deck 1's first track has loaded after the deck changed to
\* another track: the placeholder stays.
C39_Witness ==
    /\ page.did = [kind |-> "load", deck |-> 1, req |-> 2]
    /\ page.artworkRequestId[1] = 4
    /\ page.lastTrackPath[1] = Str(<<"n","e","t",":","/","/","b",".","m","p","3">>)
    /\ page.container[1].kind = "placeholder"

====
